-------------------------------- MODULE MCTodos --------------------------------
(* Small instances of Todos for TLC. *)
EXTENDS Todos, TLC

CONSTANTS s1, s2, A, B

Says(op, text, num, to) == [op |-> op, text |-> text, num |-> num, to |-> to]
Create(text)       == Says("create", text, 0, "pending")
Created(num, text) == Says("created", text, num, "pending")
Update(num, to)    == Says("update", NoText, num, to)
Write(text, to)    == Says("write", text, 0, to)
List(num, text, to) == Says("list", text, num, to)
End                == Says("end", NoText, 0, "pending")

TwoSessions(first, second) == [s \in Sessions |-> IF s = s1 THEN first ELSE second]

\* Two calls answered together, one of them without its subject; a session
\* that uses TodoWrite beside one that numbers its tasks; a task list of
\* what another session reported, and an end; two sessions with the same number.
MixedTranscripts ==
    { TwoSessions(<<Create(A), Create(B), Created(1, NoText), Created(2, B), Update(2, "deleted")>>, <<>>),
      TwoSessions(<<Create(A), Created(1, A)>>,
                  <<Write(A, "completed"), Write(A, "none")>>),
      TwoSessions(<<Create(A), Created(1, A)>>,
                  <<List(1, A, "pending"), End>>),
      TwoSessions(<<Create(A), Created(1, A)>>, <<Create(B), Created(1, B), Update(1, "completed")>>) }

\* One todo of a session and one without, of the text it speaks of and another.
TwoPosts ==
    {[session |-> s1, text |-> A, to |-> "pending"], [session |-> NoSession, text |-> B, to |-> "in_progress"]}

\* One injected todo, of a text that the transcripts also speak of.
OneInjection == {[session |-> s1, text |-> A, to |-> "pending"]}
NoInjections == {}

\* A task is reported on after it was closed.
LaterUpdate == { TwoSessions(<<Create(A), Created(1, A), Update(1, "in_progress")>>, <<>>) }
===============================================================================
