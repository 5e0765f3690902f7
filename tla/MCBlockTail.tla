---------------------------- MODULE MCBlockTail ----------------------------
(* Instance of BlockTail for TLC: a sat that is inscribed in one block, twice *)
(* in a later one, and a block without inscriptions in between.              *)
EXTENDS BlockTail, TLC

CONSTANTS a, b, c, tail, again, once

MCBlocks == << <<a>>, <<>>, <<b, c>> >>
MCSatOf  == a :> 1 @@ b :> 1 @@ c :> 1
MCPlus   == {a, b}
MCProcs  == {tail, again, once}
MCMode   == tail :> "tail" @@ again :> "reverse" @@ once :> "block"
=============================================================================
