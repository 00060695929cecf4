----------------------------- MODULE MCServices -----------------------------
(* Four services of family_chat that share no state, each checked by itself: *)
(* a behaviour picks one of them (limits: one of the three limiters) and     *)
(* leaves the others alone.                                                  *)
EXTENDS FileStore, Limits, Unread, Paging, TLC

CONSTANTS photo, icon

VARIABLE part

(* The thumbnail of a picture is a picture; a small one is its own.          *)
MCThumbOf == [c \in Content |-> icon]

(* None, to the end, inside the file, past its end and from there on.        *)
MCRanges == {<<>>, <<1>>, <<0, 0>>, <<1, 2>>, <<2>>}

Interchangeable ==
    Permutations(Upload) \cup Permutations(Key) \cup Permutations(Reader)

vars == <<filesVars, limitsVars, unreadVars, pagingVars, part>>

MCInit ==
    /\ FilesInit /\ LimitsInit /\ UnreadInit /\ PagingInit
    /\ part \in {"files", "unread", "paging"} \cup Limiter

FilesPart ==
    /\ part = "files" /\ FilesNext
    /\ UNCHANGED <<limitsVars, unreadVars, pagingVars, part>>

LimitsPart ==
    /\ \/ part \in Limiter /\ Tick
       \/ \E k \in Key : \/ part = "upload" /\ CheckUpload(k)
                         \/ part = "login" /\ CheckLogin(k)
                         \/ part = "typing" /\ Typing(k)
    /\ UNCHANGED <<filesVars, unreadVars, pagingVars, part>>

UnreadPart ==
    /\ part = "unread" /\ UnreadNext
    /\ UNCHANGED <<filesVars, limitsVars, pagingVars, part>>

PagingPart ==
    /\ part = "paging" /\ PagingNext
    /\ UNCHANGED <<filesVars, limitsVars, unreadVars, part>>

MCNext == FilesPart \/ LimitsPart \/ UnreadPart \/ PagingPart

MCSpec == MCInit /\ [][MCNext]_vars

(* Every part keeps its types.                                               *)
TypeOK == FilesTypeOK /\ LimitsTypeOK /\ UnreadTypeOK /\ PagingTypeOK

=============================================================================
