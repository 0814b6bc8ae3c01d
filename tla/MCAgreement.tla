------------------------------ MODULE MCAgreement ------------------------------
(* Three sources, each lexed to at most two tokens of two kinds.                *)
EXTENDS Agreement

CONSTANTS f1, f2, f3, k1, k2

MCListed == <<f1, f2, f3>>
MCStreams == {<<k1>>, <<k2>>, <<k1, k1>>}
================================================================================
