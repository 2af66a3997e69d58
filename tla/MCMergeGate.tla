---------------------------- MODULE MCMergeGate ----------------------------
EXTENDS MergeGate

\* RFD 2001, published.
MCFirstTree == CleanCase

Dir(serial, slug) == [form |-> "hex", num |-> <<2, serial>>, slug |-> slug]

\* The next serial under two slugs, and the one after it.
MCAdditions ==
  {[name |-> d, fm |-> d.num, title |-> d.num, row |-> TRUE] :
     d \in {Dir(2, 1), Dir(2, 2), Dir(3, 1)}}

\* The first again, with its row in ALIASES.md or without.
MCForgotten ==
  {[name |-> Dir(2, 1), fm |-> <<2, 2>>, title |-> <<2, 2>>, row |-> r] : r \in BOOLEAN}

TwoJobs   == {"prek", "rfd-numbers"}
NumberJob == {"rfd-numbers"}
PrekOnly  == {"prek"}
=============================================================================
