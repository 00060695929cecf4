----------------------------- MODULE MCChatView -----------------------------
(***************************************************************************)
(* ChatView for TLC: its symmetries and what decides how it goes on.       *)
(***************************************************************************)
EXTENDS ChatView, TLC

Interchangeable ==
    Permutations(Room) \cup Permutations(Message) \cup Permutations(Text)

\* What is shown stays shown, so it no longer matters why it was missed; and
\* NoDoubles asks for the early ones of a text of their own only.
Relevant == <<view, list, post, fetch, socket, server, member, old, breaks,
              {m \in missed : ~Has(list, Shown(m))}, {m \in early : Unique(m)}>>

\* Kept is SelectSeq, for sequences long enough to keep some of equal elements.
ASSUME KeptIsSelectSeq ==
    \A T \in SUBSET Message : \A n \in 0 .. 4 : \A s \in [1 .. n -> Message] :
        Kept(s, T) = SelectSeq(s, LAMBDA m : m \in T)

=============================================================================
