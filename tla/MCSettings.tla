----------------------------- MODULE MCSettings -----------------------------
(* Command lines and saves of a few kinds. *)
EXTENDS Settings, TLC

CONSTANTS d1, p1, g1, g2

NoFlags ==
    [web |-> FALSE, pass |-> NoPass, reset |-> FALSE, debug |-> FALSE,
     tui |-> FALSE]

\* The first start with -webui, later ones without flags, with a password,
\* to reset it, and with the TUI.
MCFlags ==
    {NoFlags, [NoFlags EXCEPT !.web = TRUE, !.debug = TRUE],
     [NoFlags EXCEPT !.web = TRUE, !.pass = p1],
     [NoFlags EXCEPT !.web = TRUE, !.pass = p1, !.reset = TRUE],
     [NoFlags EXCEPT !.web = TRUE, !.reset = TRUE, !.tui = TRUE]}

WebFlags == {[NoFlags EXCEPT !.web = TRUE]}

\* The device section, the form's other fields, an emptied web UI section,
\* and one without a password.
MCBody ==
    {"device" :> d1, "debug" :> TRUE,
     "debug" :> FALSE @@ "addr" :> FALSE @@ "pass" :> NoPass,
     "addr" :> TRUE @@ "pass" :> NoPass}

\* What one save names, the other does not.
PlainBody == {"device" :> d1, "debug" :> TRUE}

Symmetry == Permutations(Saver)
=============================================================================
