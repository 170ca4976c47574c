--------------------------- MODULE MCStreamReader ---------------------------
(* Instances of StreamReader for TLC. *)
EXTENDS StreamReader, SequencesExt

\* Every stream of up to four lines, and of up to three chunks, errors or ends, each with its
\* empty line and, for one of them, with the event line before it. Some begin with more empty
\* lines than a call takes, and go on.
Bodies ==
  LET Frames == {<<k, "blank">> : k \in DataKinds} \cup {<<"other", "data", "blank">>}
  IN SeqOf(Kinds, 4) \cup {FlattenSeq(s) : s \in SeqOf(Frames, 3)}
       \cup {<<"blank", "blank", "blank", "data">> \o s : s \in SeqOf(Kinds, 2)}
=============================================================================
