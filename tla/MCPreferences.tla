---------------------------- MODULE MCPreferences ----------------------------
(* Instances of Preferences for TLC.                                        *)
EXTENDS Preferences, TLC

CONSTANTS p1

At(scheme, port, path) == [scheme |-> scheme, port |-> port, path |-> path]

\* One port under both schemes, and an endpoint on it with a path of its own.
Known ==
    <<At("http", 80, "/announce"), At("http", 80, "/x/announce"),
      At("https", 80, "/announce")>>

=============================================================================
