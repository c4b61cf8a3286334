------------------------------ MODULE MCScreen ------------------------------
(* Small screens for TLC; see Screen.cfg.                                     *)
EXTENDS Screen

\* Two text modes, like 80x25 and 90x30.
Small == {<<2, 2>>, <<1, 3>>}

\* Black and white.
Few == {{}, {0, 1}}
TwoPlanes == {0, 1}
=============================================================================
