---------------------------- MODULE MCSqliteStore ----------------------------
(***************************************************************************)
(* A small instance of SqliteStore.                                        *)
(***************************************************************************)
EXTENDS SqliteStore

\* A span with an attribute, and one with an event that has an attribute.
Slim == {[attrs |-> 1, events |-> <<>>], [attrs |-> 0, events |-> <<1>>]}
=============================================================================
