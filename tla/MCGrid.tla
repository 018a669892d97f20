------------------------------- MODULE MCGrid -------------------------------
(* Small instances of Grid for TLC. *)
EXTENDS Grid, TLC

\* All rows, in order of their keys.
AllRows == {<<1, 2>>}

\* All rows, and a filter that shows some of them.
Filtered == {<<1, 2>>, <<2>>}

\* The state without the history that only the violated properties mention; no
\* guard and no other variable depends on it.
NoTrace == <<table, view, loads, data, readOnly, selRows, edit, asked, txMode, edits,
             deletes, inserts, commit, batch, picked, drafts, made, unheard>>
=============================================================================
