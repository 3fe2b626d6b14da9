-------------------------- MODULE SessionRegistry --------------------------
(***************************************************************************)
(* What the session store promises its clients: a registry of sessions,    *)
(* each with one token at a time, which a restart reads back.  There is no *)
(* mutex, no connection, no pending write and no clock here; Session       *)
(* implements this specification under the mapping at the end of that      *)
(* module.                                                                 *)
(***************************************************************************)

CONSTANTS Sessions, Tokens, Contexts

VARIABLES
    up,           \* the registry is in service
    status,       \* "new", "open", or "over": the client was told it is closed
    stored,       \* the entries a restart would find
    renewable,    \* those whose session can be renewed now
    usable,       \* those whose token is still known
    dead          \* tokens that open nothing any more

vars == <<up, status, stored, renewable, usable, dead>>

Entry(s, t, c) == [session |-> s, token |-> t, context |-> c]

Fresh(t) == t \notin dead /\ \A e \in stored : e.token # t

\* E with e replaced by f, if it has e.
Swap(E, e, f) == IF e \in E THEN (E \ {e}) \cup {f} ELSE E

\* A session is opened once, under a token nobody had before.
Login(s, t, c) ==
    /\ up /\ status[s] = "new" /\ Fresh(t)
    /\ status' = [status EXCEPT ![s] = "open"]
    /\ stored' = stored \cup {Entry(s, t, c)}
    /\ renewable' = renewable \cup {Entry(s, t, c)}
    /\ usable' = usable \cup {Entry(s, t, c)}
    /\ UNCHANGED <<up, dead>>

\* A change of context is durable when it shows.
SetContext(e, c) ==
    LET f == Entry(e.session, e.token, c)
    IN  /\ e \in usable
        /\ stored' = Swap(stored, e, f)
        /\ renewable' = Swap(renewable, e, f)
        /\ usable' = Swap(usable, e, f)
        /\ UNCHANGED <<up, status, dead>>

\* The new token takes the place of the old one, which never opens anything
\* again; the context stays.
Renew(e, t) ==
    LET f == Entry(e.session, t, e.context)
    IN  /\ e \in renewable /\ Fresh(t)
        /\ stored' = Swap(stored, e, f)
        /\ renewable' = Swap(renewable, e, f)
        /\ usable' = (usable \ {e}) \cup {f}
        /\ dead' = dead \cup {e.token}
        /\ UNCHANGED <<up, status>>

\* A token that was drawn for nothing.
Waste(t) ==
    /\ Fresh(t)
    /\ dead' = dead \cup {t}
    /\ UNCHANGED <<up, status, stored, renewable, usable>>

\* A token runs out; its session can still be renewed.
Lapse(e) ==
    /\ e \in usable
    /\ usable' = usable \ {e}
    /\ UNCHANGED <<up, status, stored, renewable, dead>>

\* A session goes out of service, by a logout or because it is too old.
Retire(e) ==
    /\ e \in renewable
    /\ renewable' = renewable \ {e}
    /\ usable' = usable \ {e}
    /\ UNCHANGED <<up, status, stored, dead>>

\* The entry of a session out of service is deleted.  A client that is told so
\* is told the truth for ever: no action brings an entry or a session back.
Delete(e, told) ==
    /\ e \in stored \ renewable
    /\ stored' = stored \ {e}
    /\ status' = IF told THEN [status EXCEPT ![e.session] = "over"] ELSE status
    /\ dead' = dead \cup {e.token}
    /\ UNCHANGED <<up, renewable, usable>>

\* A token that was drawn and not yet used is lost with the process.
Stop ==
    /\ up
    /\ up' = FALSE
    /\ renewable' = {}
    /\ usable' = {}
    /\ dead' \in {dead} \cup {dead \cup {t} : t \in {u \in Tokens : Fresh(u)}}
    /\ UNCHANGED <<status, stored>>

\* A restart finds entries as they were stored, and makes up none.
Restart(E) ==
    /\ ~up
    /\ up' = TRUE
    /\ renewable' = E
    /\ usable' = E
    /\ UNCHANGED <<status, stored, dead>>

Init ==
    /\ up = TRUE
    /\ status = [s \in Sessions |-> "new"]
    /\ stored = {}
    /\ renewable = {}
    /\ usable = {}
    /\ dead = {}

Next ==
    \/ \E s \in Sessions, t \in Tokens, c \in Contexts : Login(s, t, c)
    \/ \E e \in usable, c \in Contexts : SetContext(e, c)
    \/ \E e \in renewable, t \in Tokens : Renew(e, t)
    \/ \E t \in Tokens : Waste(t)
    \/ \E e \in usable : Lapse(e)
    \/ \E e \in renewable : Retire(e)
    \/ \E e \in stored, told \in BOOLEAN : Delete(e, told)
    \/ Stop
    \/ \E E \in SUBSET stored : Restart(E)

Spec == Init /\ [][Next]_vars
=============================================================================
