---------------------------- MODULE MCL1InfoTree ----------------------------
(***************************************************************************)
(* L1 chains for TLC: etrog chains that fork after their first or second   *)
(* block and whose blocks carry up to five leaves, and two feijoa chains.  *)
(***************************************************************************)
EXTENDS L1InfoTree

\* A leaf's hash is a one-element sequence, to tell it from the other hashes.
LeafHashes(names) == [i \in DOMAIN names |-> <<names[i]>>]

Block(names)       == [feijoa |-> FALSE, leaves |-> LeafHashes(names)]
FeijoaBlock(names) == [feijoa |-> TRUE, leaves |-> LeafHashes(names)]

EtrogChains ==
  {<<Block(<<>>), Block(<<"b", "c">>), Block(<<"d", "e">>), Block(<<"f">>)>>,
   <<Block(<<>>), Block(<<"g">>), Block(<<"c">>), Block(<<"d", "h", "e">>)>>,
   <<Block(<<>>), Block(<<"b", "c">>), Block(<<"i">>), Block(<<"j", "d", "e", "f", "g">>)>>}

FeijoaChains ==
  {<<FeijoaBlock(<<>>), FeijoaBlock(<<"a", "b">>), FeijoaBlock(<<"c">>), FeijoaBlock(<<"d">>)>>,
   <<FeijoaBlock(<<>>), FeijoaBlock(<<"a", "b">>), FeijoaBlock(<<"e", "f">>)>>}

AllChains == EtrogChains \cup FeijoaChains
=============================================================================
