---------------------------- MODULE MCComposition ----------------------------
(* Composition for model checking: two paths of one host, so that ids clash.*)
EXTENDS Composition, TLC

MCUrls == {<<"host1", "a">>, <<"host1", "b">>}

MCFileBackends ==
  {FileBackend(<<"host1", "a">>, "unset", {"PingTime", "ReadBufferSize"}),
   FileBackend(<<"host1", "b">>, "id1", {})}

Symmetry == Permutations(Sessions)
=============================================================================
