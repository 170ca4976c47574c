----------------------------- MODULE SkillSlots -----------------------------
(***************************************************************************)
(* What the installation of skills promises: the directory of a skill has  *)
(* the content it had, or the whole new one; the end of a session takes    *)
(* away what the session installed and nothing else.                       *)
(***************************************************************************)
EXTENDS Naturals

CONSTANTS Names,
          Contents,   \* what a directory may hold: 0 from before, k installed by session k
          NoSkill, Torn

VARIABLES content,    \* of each skill's directory
          mine,       \* the skills that the session's worker knows it installed
          failed,     \* the calls that failed in the installation under way
          deaths      \* of the worker

vars == <<content, mine, deaths>>

Init == content \in [Names -> {NoSkill, 0}] /\ mine = {} /\ deaths = 0

Install(n) ==
  /\ \E v \in Contents \ {0} : content' = [content EXCEPT ![n] = v]
  /\ mine' = mine \cup {n} /\ UNCHANGED deaths

\* A directory may resist; a skill that was installed twice is removed twice.
Remove(n) ==
  /\ n \in mine /\ mine' \in {mine, mine \ {n}} /\ UNCHANGED deaths
  /\ content' \in {content, [content EXCEPT ![n] = NoSkill]}

\* The worker dies, and with it its knowledge; it may leave one directory half removed, and
\* one it was replacing without a skill.
Die ==
  /\ deaths' = deaths + 1 /\ mine' = {}
  /\ \/ UNCHANGED content
     \/ \E n \in Names : content' = [content EXCEPT ![n] = NoSkill]
     \/ \E n \in mine : content' = [content EXCEPT ![n] = Torn]

\* Neither the new content nor the old one can be moved into its place.
Lose(n) ==
  /\ failed' > 1
  /\ content' = [content EXCEPT ![n] = NoSkill] /\ UNCHANGED <<mine, deaths>>

Next == Die \/ \E n \in Names : Install(n) \/ Remove(n) \/ Lose(n)

Spec == Init /\ [][Next]_vars
=============================================================================
