----------------------------- MODULE MCSettings -----------------------------
(***************************************************************************)
(* Drawn settings of small pictures: the tools that the parameter sets     *)
(* turn on, sizes, tiles and slices, and the slice headers of an I, a P    *)
(* and a B picture.                                                        *)
(***************************************************************************)
EXTENDS Transform, PictureLayout

(* The k-th choice of video v: among n values, or one in n is TRUE.        *)
Of(v, k, n)  == Draw(Hash(v, 1000), k, n)
OneIn(v, k, n) == Of(v, k, n) = 0
Among(v, k, values) == values[Of(v, k, Len(values)) + 1]

(* CTUs of 16 x 16 down to CUs of 8 x 8, of 32 down to 16 with larger      *)
(* transforms, and of 32 down to 8.                                        *)
Sizes(v) ==
  Among(v, 1, <<(<<4, 3, 2>>), <<4, 3, 2>>, <<4, 3, 2>>, <<5, 4, 3>>, <<5, 3, 2>>, <<4, 4, 2>>>>)

PictureOf(v) ==
  LET across == 2 + Of(v, 2, 2)
      down   == 1 + Of(v, 3, 3)
      tiles  == OneIn(v, 4, 3)
      wavefront == OneIn(v, 8, 2)
  IN  [ctusAcross |-> across, ctusDown |-> down,
       columns |-> IF tiles THEN 2 ELSE 1, rows |-> IF tiles /\ down > 1 THEN 1 + Of(v, 5, 2) ELSE 1,
       uniform |-> ~tiles \/ OneIn(v, 6, 2), columnWidth |-> <<1>>, rowHeight |-> <<1>>,
       wavefront |-> wavefront /\ ~tiles,
       sliceMode |-> Among(v, 9, <<0, 0, 1>>), sliceArgument |-> 1 + Of(v, 10, 5),
       segmentMode |-> Among(v, 11, <<0, 1, 1>>), segmentArgument |-> 1 + Of(v, 12, 3)]

(* What the sequence and picture parameter sets say.                       *)
Tools(v) ==
  LET ctb   == Sizes(v)[1]
      minCu == Sizes(v)[2]
      minTu == Sizes(v)[3]
      chroma == Among(v, 13, <<"420", "420", "444", "400">>)
      p     == PictureOf(v)
      Short(k) == Of(v, k, 2^(ctb - minCu)) * 2^minCu      \* of a picture that ends within a CTU
  IN  [samples |-> FALSE, content |-> v, totalDepth |-> ctb - minTu, log2Unit |-> minTu, minCuDepth |-> ctb - minCu,
       width |-> p.ctusAcross * 2^ctb - Short(14), height |-> p.ctusDown * 2^ctb - Short(15),
       chroma |-> chroma, picture |-> p,
       log2MinTu |-> minTu, log2MaxTu |-> minTu + Of(v, 16, ctb - minTu + 1),
       maxDepthInter |-> 1 + Of(v, 17, ctb - minTu + 1), maxDepthIntra |-> 1 + Of(v, 18, ctb - minTu + 1),
       range |-> 15, crossComponent |-> chroma = "444" /\ OneIn(v, 19, 2),
       qpBdOffset |-> Among(v, 20, <<0, 12>>), qpRange |-> Among(v, 21, <<7, 7, 60>>),
       useDqp |-> ~OneIn(v, 22, 3), dqpDepth |-> IF OneIn(v, 22, 3) THEN 0 ELSE Of(v, 23, ctb - minCu + 1),
       useChromaQpAdj |-> chroma # "400" /\ OneIn(v, 24, 2), chromaQpAdjDepth |-> Of(v, 25, ctb - minCu + 1),
       chromaQpAdjLen |-> 1 + Of(v, 26, 6),
       transformSkipContext |-> OneIn(v, 27, 2), implicitRdpcm |-> OneIn(v, 28, 2),
       explicitRdpcm |-> OneIn(v, 29, 2), log2MaxTransformSkipSize |-> 2 + Of(v, 30, 2),
       persistentRice |-> ~OneIn(v, 31, 3), transformSkip |-> OneIn(v, 32, 2), signHide |-> ~OneIn(v, 33, 3),
       extendedPrecision |-> OneIn(v, 34, 3), cabacBypassAlignment |-> OneIn(v, 35, 3),
       saoOffsets |-> 7, usePcm |-> OneIn(v, 36, 2), pcmLog2Min |-> 3, pcmLog2Max |-> 3 + Of(v, 37, 2),
       pcmBits |-> <<8, 4>>, amp |-> ~OneIn(v, 38, 3), bypassEnabled |-> OneIn(v, 39, 3),
       parMrgLevel |-> 2 + Of(v, 40, ctb - 1)]

(* And the slice headers of the k-th picture.                              *)
POCs == <<0, 8, 4>>
Slice(v, k) ==
  LET refs == <<(<<(<< >>), << >>>>),
                Among(v, 41, <<(<<(<<0>>), << >>>>), <<(<<0, -8>>), << >>>>>>),
                Among(v, 42, <<(<<(<<0>>), <<8>>>>), <<(<<0, 8>>), <<8, 0>>>>, <<(<<0, -8>>), <<0, -8>>>>,
                               <<(<<0, 8, -8>>), <<8, 0, -8>>>>>>)>>[k]
  IN  [poc |-> POCs[k], isI |-> k = 1, isB |-> k = 3, refPOC |-> refs,
       longTerm |-> [list \in Lists |-> [i \in DOMAIN refs[list] |-> OneIn(v, 43, 2) /\ refs[list][i] = -8]],
       mvdL1Zero |-> k = 3 /\ refs[1] = refs[2], maxMergeCand |-> 1 + Of(v, 44 + k, 5),
       tmvp |-> k > 1 /\ ~OneIn(v, 47 + k, 3), colFromL0 |-> 1 - Of(v, 51, 2),
       checkLDC |-> \A list \in Lists : \A i \in DOMAIN refs[list] : refs[list][i] < POCs[k],
       sliceQp |-> 20 + Of(v, 52 + k, 20), sao |-> <<~OneIn(v, 56 + k, 3), ~OneIn(v, 60 + k, 3)>>]
=============================================================================
