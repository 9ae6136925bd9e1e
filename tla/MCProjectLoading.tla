-------------------------- MODULE MCProjectLoading --------------------------
(***************************************************************************)
(* Small instances of ProjectLoading: project files with two units, one of *)
(* them a sampler, with a gap in the unit or clip IDs, with a unit nobody  *)
(* knows, with a missing audio file, and one that is no project at all.    *)
(***************************************************************************)
EXTENDS ProjectLoading

Saved(us, cs, fs, rs) == [magic |-> TRUE, bpm |-> 1, units |-> us, clips |-> cs, files |-> fs, routes |-> rs]

U(id, kind, asset, cs) == [id |-> id, kind |-> kind, name |-> 1, value |-> 1, asset |-> asset, clips |-> cs]

C(id, file) == [id |-> id, start |-> 1, muted |-> FALSE, file |-> file]

F(id, path) == [id |-> id, path |-> path]

MC_Docs ==
  { \* a unit was deleted between the two
    Saved(<<U(1, "Track", None, <<0>>), U(3, "Sampler", "a", <<>>)>>, <<C(0, 0)>>, <<F(0, "b"), F(2, "a")>>, <<1, 3>>),
    \* a clip was removed before this one was loaded
    Saved(<<U(1, "Track", None, <<1>>)>>, <<C(0, 0), C(1, 0)>>, <<F(0, "a")>>, <<>>),
    \* a unit of a kind that this build lacks, with and without a clip
    Saved(<<U(1, "Track", None, <<>>), U(2, "Plugin", None, <<>>)>>, <<>>, <<>>, <<2>>),
    Saved(<<U(2, "Plugin", None, <<0>>)>>, <<C(0, 0)>>, <<F(0, "a")>>, <<>>),
    \* its audio file is gone
    Saved(<<U(2, "Track", None, <<0>>)>>, <<C(0, 1)>>, <<F(1, "gone")>>, <<>>),
    NoDoc }
=============================================================================
