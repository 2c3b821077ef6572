------------------------------ MODULE MCClient ------------------------------
(***************************************************************************)
(* An instance of ClientProperties for TLC.                                *)
(***************************************************************************)
EXTENDS ClientProperties

\* Every choice of the menu, one it does not have, a blank behind the number,
\* and something that is not a number.
MCMenuLines == { <<n, NL>> : n \in Range(Positive) }
                 \cup {<<"5", " ", NL>>, <<"x", NL>>}

\* Numbers of both signs, one with more behind it, none at all.
MCNumberLines == {<<"1", NL>>, <<"-1", NL>>, <<"2", "x", NL>>, <<"y", NL>>}

\* An empty line, one that fits, one that is too long by one.
MCTextLines == {<<NL>>, <<"a", "b", NL>>, <<"a", "b", "c", NL>>}

\* Texts longer than the titles above them, and shorter ones with a '|'.
MCData == {[id |-> 1, w |-> 20, bars |-> 0], [id |-> 2, w |-> 2, bars |-> 1]}
=============================================================================
