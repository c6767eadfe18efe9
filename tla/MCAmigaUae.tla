---------------------------- MODULE MCAmigaUae ----------------------------
(***************************************************************************)
(* The instance of AmigaUae that TLC checks: a program of two segments and *)
(* three source files, two of them in the first segment, and one that      *)
(* cannot be parsed for the name in it; a line of the second segment and   *)
(* an address to break at; two unread packets, so that a stop can come     *)
(* behind a frame or a late reply; and one emulator, which may go.  What   *)
(* is proved of AmigaUae holds for any number of them.                     *)
(***************************************************************************)
EXTENDS AmigaUae

MCFiles ==
    [game |-> [count |-> 2,
               hunks |-> << << Plain, OtherDebug,
                               Lines("main", 0, << Line(1, 0) >>),
                               Lines("draw", 1, << Line(3, 0) >>) >>,
                            << Plain, Name(0), Lines("sound", 0, << Line(7, 0) >>) >> >>],
     demo |-> [count |-> 1, hunks |-> << << Name(2), Plain >> >>]]

MCLoaded ==
    [game |-> << [address |-> 10, size |-> 2], [address |-> 20, size |-> 1] >>,
     demo |-> << [address |-> 10, size |-> 1] >>]

MCSourceLines == {Source("sound", 7)}
=============================================================================
