---------------------------- MODULE MCXFileLog ----------------------------
EXTENDS XFileLog, TLC

CONSTANTS w1, w2

MCWriters == {w1, w2}
MCOneWriter == {w1}
WriterSymm == Permutations(MCWriters)
=============================================================================
