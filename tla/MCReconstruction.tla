-------------------------- MODULE MCReconstruction --------------------------
(***************************************************************************)
(* Single small pictures, each with I, P or B slices.                      *)
(***************************************************************************)
EXTENDS Reconstruction, MCSettings

CONSTANTS PictureCount,      \* bound: number of pictures
          SeedCount          \* bound: number of ways to code each of them

MCSeeds == 1..SeedCount

(* CTUs of 16 x 16 and, in fewer pictures, of 32 x 32; at most four.       *)
SmallPicture(v) == [PictureOf(v) EXCEPT !.ctusAcross = 2, !.ctusDown = 1 + Of(v, 3, 2),
                                        !.rows = Smaller(@, 1 + Of(v, 3, 2))]

(* Scaling lists: values from 16 on.                                       *)
Lists64(v) ==
  [key \in (0..3) \X (0..5) |->
     [dc |-> 16 + Of(v, 300 + 6 * key[1] + key[2], 32),
      coef |-> Table([p \in 0..63 |-> 16 + Of(v, 400 + 64 * (6 * key[1] + key[2]) + p, IF OneIn(v, 84, 3) THEN 240 ELSE 20)])]]

Samples(v, layout) ==
  LET depths == Among(v, 70, <<(<<8, 8>>), <<8, 8>>, <<10, 8>>, <<9, 11>>, <<12, 12>>>>)
      slices == {layout.slice[ctu] : ctu \in DOMAIN layout.slice}
      Offset(k) == Of(v, k, 25) - 12
  IN  [samples |-> TRUE, bitDepth |-> depths, qpBdOffset |-> 6 * (depths[1] - 8),
       extendedPrecision |-> FALSE, tmvp |-> FALSE, rotation |-> OneIn(v, 71, 2),
       scalingLists |-> IF OneIn(v, 72, 3) THEN Table(Lists64(v)) ELSE << >>,
       qpOffset |-> <<Offset(73), Offset(74)>>, sliceQpDelta |-> <<(Offset(75) \div 4), Offset(76) \div 4>>,
       qpAdjOffset |-> [k \in 1..6 |-> <<Offset(76 + k), Offset(82 + k)>>],
       useSao |-> ~OneIn(v, 90, 5), saoOffsets |-> 2^(Smaller(Smaller(depths[1], depths[2]), 10) - 5) - 1,
       saoOffsetShift |-> <<Of(v, 91, depths[1] - 7) \div 2, Of(v, 92, depths[2] - 7) \div 2>>,
       deblockingOff |-> [slice \in slices |-> OneIn(v, 100 + slice, 5)],
       acrossSlices |-> [slice \in slices |-> ~OneIn(v, 110 + slice, 3)], acrossTiles |-> ~OneIn(v, 93, 3),
       betaOffsetDiv2 |-> Of(v, 94, 13) - 6, tcOffsetDiv2 |-> Of(v, 95, 13) - 6, pcmFilterOff |-> OneIn(v, 96, 2)]

WithSamples(v, p, tools, layout) ==
  Samples(v, layout) @@ [picture |-> p,
                         width |-> tools.width - (PictureOf(v).ctusAcross - p.ctusAcross) * 2^Sizes(v)[1],
                         height |-> tools.height - (PictureOf(v).ctusDown - p.ctusDown) * 2^Sizes(v)[1]]
  @@ tools @@ Slice(v, 1 + (v % 3)) @@ layout

Settings(v) == WithSamples(v, SmallPicture(v), Tools(v), Layout(SmallPicture(v)))

MCPictures == {Settings(v) : v \in 1..PictureCount}
=============================================================================
