------------------------------ MODULE GameRound ------------------------------
(***************************************************************************)
(* What a round of the game promises the player, with no threads, slots,   *)
(* mutexes or texts: words fall, and each one leaves the screen once, with *)
(* one consequence; lives are lost one at a time, never below zero and     *)
(* never after game over; the score only grows; and game over is final for *)
(* the round, save for the one entry or the one new word that was already  *)
(* under way.                                                              *)
(***************************************************************************)
EXTENDS Naturals

CONSTANTS
  Room,          \* words that fit on the screen
  InitialLives,
  Worth          \* points a word can be worth

VARIABLES
  falling,  \* how many words are on the screen
  score,
  lives,
  over,     \* is the game over?
  doing     \* what is under way: an entry, the score of one, or a new word

vars == <<falling, score, lives, over, doing>>

NewRound ==
  /\ falling = 0 /\ score = 0 /\ lives = InitialLives
  /\ over = FALSE /\ doing = "nothing"

Init == NewRound

\* A round starts on an empty screen.
Start ==
  /\ falling = 0 /\ doing = "nothing"
  /\ NewRound'

GameOver ==
  /\ over' = TRUE
  /\ UNCHANGED <<falling, score, lives, doing>>

Begin(what) ==
  /\ doing = "nothing" /\ ~over
  /\ doing' = what
  /\ UNCHANGED <<falling, score, lives, over>>

\* The entry matches no word, or no word can be started.
Nothing ==
  /\ doing \in {"entry", "spawn"}
  /\ doing' = "nothing"
  /\ UNCHANGED <<falling, score, lives, over>>

Spawn ==
  /\ doing = "spawn"
  /\ falling < Room
  /\ falling' = falling + 1
  /\ doing' = "nothing"
  /\ UNCHANGED <<score, lives, over>>

Take ==
  /\ doing = "entry"
  /\ falling > 0
  /\ falling' = falling - 1
  /\ doing' = "scoring"
  /\ UNCHANGED <<score, lives, over>>

\* The word that was taken counts; a kill word counts for nothing and ends it.
Count ==
  /\ doing = "scoring"
  /\ \/ \E n \in Worth : score' = score + n /\ UNCHANGED over
     \/ over' = TRUE /\ UNCHANGED score
  /\ doing' = "nothing"
  /\ UNCHANGED <<falling, lives>>

\* A word lands: a life is lost (but not for a kill word), and the last one ends
\* the game.
Land ==
  /\ falling > 0
  /\ falling' = falling - 1
  /\ \/ UNCHANGED lives
     \/ ~over /\ lives > 0 /\ lives' = lives - 1
  /\ over' = (over \/ lives' = 0)
  /\ UNCHANGED <<score, doing>>

\* After game over the words vanish.
Vanish ==
  /\ over
  /\ falling > 0
  /\ falling' = falling - 1
  /\ UNCHANGED <<score, lives, over, doing>>

Next ==
  \/ Start \/ GameOver \/ Nothing \/ Spawn \/ Take \/ Count \/ Land \/ Vanish
  \/ \E what \in {"entry", "spawn"} : Begin(what)

Spec == Init /\ [][Next]_vars

-----------------------------------------------------------------------------
(* What follows for the player.                                            *)

\* There is never more on the screen than fits, and no life more than at first;
\* the game is over when none is left.
Bounds ==
  /\ falling \in 0..Room /\ score \in Nat
  /\ lives \in 0..InitialLives
  /\ lives = 0 => over

\* Points are never taken away and lives never given back within a round; after
\* game over no life is lost, no entry and no new word is begun, the score changes
\* only for the entry that was under way, and only a new round goes on.
OverIsFinal ==
  [][\/ /\ score' >= score /\ lives' <= lives
        /\ over =>
             /\ over' /\ lives' = lives
             /\ score' # score => doing = "scoring" /\ doing' = "nothing"
             /\ falling' > falling => doing = "spawn" /\ doing' = "nothing"
             /\ doing = "nothing" => doing' = "nothing"
     \/ falling = 0 /\ doing = "nothing" /\ NewRound']_vars
=============================================================================
