---------------------------- MODULE MCFtpSession ----------------------------
(* FtpSession on a server with a directory and two files of the same name. *)
EXTENDS FtpSession

MCNames == {"a", "f"}
MCFolders == {<<"a">>}
MCFiles == {<<"f">>, <<"a", "f">>}

\* The root, a directory and a file in it; the other file is there to be hit.
MCTargets == {<<>>, <<"a">>, <<"a", "f">>}
MCMoreTargets == MCTargets \cup {<<"f">>}

\* With and without a login: the middle cases run the same steps.
MCCredentials == {[user |-> b, pass |-> b] : b \in BOOLEAN}
MCFeatures == {{}, {"MLST", "SIZE"}}

=============================================================================
