---------------------------- MODULE MCPixelPath ----------------------------
(***************************************************************************)
(* Sessions of both versions with budgets from one cell to the whole       *)
(* image, and limits below, at and above what the smallest frame needs.    *)
(***************************************************************************)
EXTENDS PixelPath

Setup(version, tile, cell, payload, rectangles, parts) ==
    [version |-> version, tile |-> tile, cell |-> cell, payload |-> payload,
     rectangles |-> rectangles, parts |-> parts]

\* Budgets from three bytes to the whole image; a limit of zero is the hard one.
MCSetups ==
    {Setup(1, 2, 256, 53 + 4 * 256, 3, 1), Setup(1, 2, 256, 0, 0, 0),
     Setup(1, 5, 52, 53 + 36 * 52, 0, 1),
     Setup(2, 2, 256, 53 + 4 * 256, 4, 3), Setup(2, 3, 256, 53 + 6 * 256 + 100, 5, 2),
     Setup(2, 2, 4, 53 + 16, 5, 3), Setup(2, 2, 4, 53 + 36, 4, 0),
     Setup(2, 3, 4, 53 + 3, 3, 2), Setup(2, 2, 4, 52, 3, 2), Setup(2, 2, 4, 140, 0, 2),
     Setup(2, 2, 4, 53 + 36, 5, 1)}

MCSizes == {<<1, 1>>, <<3, 3>>, <<1, 6>>, <<4, 5>>, <<6, 5>>, <<6, 6>>}

MCViews == {<<4, 4>>, <<6, 4>>, <<3, 7>>, <<9, 5>>, <<8, 8>>}
==============================================================================
