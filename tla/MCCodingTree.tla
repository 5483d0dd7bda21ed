---------------------------- MODULE MCCodingTree ----------------------------
(***************************************************************************)
(* Videos of three small pictures, with I, P and B slices.                 *)
(***************************************************************************)
EXTENDS CodingTree, MCSettings

CONSTANTS VideoCount,        \* bound: number of videos
          SeedCount          \* bound: number of ways to code each of them

MCSeeds == 1..SeedCount

Settings(v, k) == Tools(v) @@ Slice(v, k) @@ Layout(PictureOf(v))

MCVideos == {[k \in 1..3 |-> Settings(v, k)] : v \in 1..VideoCount}
=============================================================================
