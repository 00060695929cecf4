---------------------------- MODULE MCChatStore ----------------------------
(***************************************************************************)
(* ChatStore for TLC, in two parts that one run checks side by side: who   *)
(* runs picks the part at the start.  In "messages" one user posts, edits  *)
(* and deletes in a public room; in "rooms" three users make rooms, public *)
(* ones with the slug of a direct room among them, and post one message.   *)
(***************************************************************************)
EXTENDS ChatStore, FiniteSets, TLC

CONSTANTS ann, ben, cat

VARIABLE part

MCSlugs == {{}, {ann, ben}}

\* The states of a part: what its requests are about.
InPart ==
    IF part = "messages"
    THEN /\ rooms \subseteq {Public({})}
         /\ \A q \in Request :
                "user" \in DOMAIN req[q] => req[q].at = "insert" /\ req[q].user = cat
    ELSE /\ made <= 1
         /\ \A q \in Request :
                /\ req[q].at \notin {"edit_books", "erase"}
                /\ req[q].at = "insert" => req[q].key = NoKey /\ req[q].reply = NoReply

MCInit == Init /\ part \in {"messages", "rooms"}
MCNext == UNCHANGED part /\ Next /\ InPart'
MCSpec == MCInit /\ [][MCNext]_<<vars, part>>

\* No step reads the histories; in "rooms" no step and no property depends
\* on the text either.
Bare(r) == [f \in DOMAIN r \ {"text"} |-> r[f]]

WithoutHistory ==
    IF part = "rooms"
    THEN <<rooms, members, {Bare(row[m]) : m \in Message}, [q \in Request |-> Bare(req[q])]>>
    ELSE <<vars>>

Interchangeable ==
    Permutations(Request) \cup Permutations(Text) \cup Permutations({ann, ben})

=============================================================================
