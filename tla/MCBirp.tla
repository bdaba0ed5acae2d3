--------------------------------- MODULE MCBirp --------------------------------
(* Model-checking instance of Birp: pixels of four values, squares of at most  *)
(* 4 by 4, and command lines with every option, right and wrong.               *)
EXTENDS Birp

Size(w, h) == {RasterFile("pgm", w, h, raster) : raster \in [1..w * h -> 0..LEAF_MAX]}

(* Every raster of 1 by 1, 2 by 1, 2 by 2; of 3 by 2 and 3 by 4 those of some  *)
(* patterns, the last of which repeats itself; and the two without a pixel.    *)
Patterns ==
    {RasterFile("pgm", 3, 2, <<a, b, 3, b, a, c>>) : a, b, c \in 0..LEAF_MAX}
    \cup {RasterFile("pgm", 3, 4, <<a, b, c, b, a, 2, a, b, c, b, a, 2>>) :
            a, b, c \in 0..LEAF_MAX}

SomeRasters == Size(1, 1) \cup Size(2, 1) \cup Size(2, 2) \cup Patterns
                   \cup Size(1, 0) \cup Size(0, 1)

(* Command lines: conversions, transformations, and mistakes.                  *)
SomeArgLists ==
    { <<>>, <<"-h">>, <<"-i", "pgm">>, <<"-o", "pgm">>, <<"-o", "ascii">>,
      <<"-o", "ascii", "-i", "pgm">>, <<"-i", "pgm", "-o", "pgm">>,
      <<"-i", "birp", "-n">>, <<"-r">>, <<"-t", "2">>,
      <<"-z", "0">>, <<"-z", "1">>, <<"-z", "2">>, <<"-Z", "1">>, <<"-Z", "2">>,
      <<"-n", "-r">>, <<"-r", "-o", "birp">>, <<"-o", "pgm", "-n">>, <<"-i">>,
      <<"-t", "256">>, <<"-t", "0002">>, <<"-z", "17">>, <<"-t", "-n">>, <<"-x">>,
      <<"-i", "birp", "-o", "birp", "-z", "1", "-n">>,
      <<"-i", "ascii">>, <<"-i", "pgm", "-i", "pgm">> }

SomeNumbers ==
    [word \in {"0", "1", "2", "17", "256", "0002"} |->
       CASE word = "0" -> [len |-> 1, value |-> 0]
         [] word = "1" -> [len |-> 1, value |-> 1]
         [] word = "2" -> [len |-> 1, value |-> 2]
         [] word = "17" -> [len |-> 2, value |-> 17]
         [] word = "256" -> [len |-> 3, value |-> 256]
         [] word = "0002" -> [len |-> 4, value |-> 2]]
================================================================================
