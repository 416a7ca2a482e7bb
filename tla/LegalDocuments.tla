--------------------------- MODULE LegalDocuments ---------------------------
(***************************************************************************)
(* The terms of use: LegalDocumentsService, and the acceptance of the      *)
(* terms, recorded at a purchase or a publication, or posted by the wizard *)
(* of sign-up.  One kind of document; the two kinds never meet.            *)
(*                                                                         *)
(* publish runs a transaction at READ COMMITTED: its first statement takes *)
(* the rows it saw when it began, waits for those another transaction has  *)
(* locked and looks at them again, its second locks the target.  Nothing   *)
(* is visible to others before the commit.                                 *)
(***************************************************************************)
EXTENDS Integers, Push

CONSTANTS
    Documents,   \* bound on the documents ever created
    Versions,
    FallbackVersion  \* ACTIVE_CHARTER_VERSIONS

DocumentRow == [version : Versions, active : BOOLEAN, published : BOOLEAN]

ASSUME LegalAssumption == FallbackVersion \notin Versions /\ Null \notin DocumentRow

VARIABLES
    document,    \* the LegalDocument rows, as committed
    accepted,    \* the UserCharter rows
    stated,      \* history: those that came with a version the client named
    everPublic   \* history: versions that were active at some time

legal == <<document, accepted, stated, everPublic>>

LegalInit ==
    /\ document = [d \in Documents |-> Null]
    /\ accepted = {} /\ stated = {}
    /\ everPublic = {}

Existing == {d \in Documents : document[d] # Null}
ActiveDocuments == {d \in Existing : document[d].active}
VersionTaken(v, d) == \E e \in Existing \ {d} : document[e].version = v

\* Rows locked by another transaction than t's.
LockedByOthers(t) ==
    UNION {Arg(u).locks : u \in {v \in Tasks \ {t} : task[v].pc \in {"activate", "commit"}}}

-----------------------------------------------------------------------------
\* create: the check, then the insert, which (kind, version) may refuse.
CreateDocument(t, v) ==
    /\ At(t, "idle") /\ ~VersionTaken(v, Null)
    /\ Goto(t, "insertDocument", [version |-> v])
    /\ UNCHANGED <<legal, push>>
InsertDocument(t) ==
    /\ At(t, "insertDocument")
    /\ IF VersionTaken(Arg(t).version, Null) THEN UNCHANGED document
       ELSE \E d \in Documents \ Existing :
               document' = [document EXCEPT ![d] = [version |-> Arg(t).version, active |-> FALSE,
                                                    published |-> FALSE]]
    /\ Done(t)
    /\ UNCHANGED <<accepted, stated, everPublic, push>>

\* update: of any document, an active one too.
UpdateDocument(t, d, v) ==
    /\ At(t, "idle") /\ d \in Existing /\ ~VersionTaken(v, d)
    /\ Goto(t, "writeDocument", [id |-> d, version |-> v])
    /\ UNCHANGED <<legal, push>>
WriteDocument(t) ==
    /\ At(t, "writeDocument") /\ Arg(t).id \notin LockedByOthers(t)
    /\ IF VersionTaken(Arg(t).version, Arg(t).id) THEN UNCHANGED <<document, everPublic>>
       ELSE /\ document' = [document EXCEPT ![Arg(t).id].version = Arg(t).version]
            /\ everPublic' = IF document[Arg(t).id].active
                             THEN everPublic \cup {Arg(t).version} ELSE everPublic
    /\ Done(t)
    /\ UNCHANGED <<accepted, stated, push>>

\* publish: the target exists; the transaction's first statement begins.
Publish(t, d) ==
    /\ At(t, "idle") /\ d \in Existing
    /\ Goto(t, "deactivate", [id |-> d, seen |-> ActiveDocuments \ {d}])
    /\ UNCHANGED <<legal, push>>

\* Mutant: the two statements are not one transaction.
DeactivateAtOnce(t) ==
    /\ At(t, "deactivate")
    /\ Arg(t).seen \cap LockedByOthers(t) = {}
    /\ document' = [d \in Documents |-> IF d \in Arg(t).seen \cap ActiveDocuments
                                        THEN [document[d] EXCEPT !.active = FALSE]
                                        ELSE document[d]]
    /\ Goto(t, "activate", [id |-> Arg(t).id, locks |-> {}])
    /\ UNCHANGED <<accepted, stated, everPublic, push>>
\* The others it saw, as far as they are still active, are deactivated.
Deactivate(t) ==
    /\ At(t, "deactivate")
    /\ Arg(t).seen \cap LockedByOthers(t) = {}
    /\ Goto(t, "activate", [id |-> Arg(t).id, locks |-> Arg(t).seen \cap ActiveDocuments])
    /\ UNCHANGED <<legal, push>>
\* The target is activated.
Activate(t) ==
    /\ At(t, "activate") /\ Arg(t).id \notin LockedByOthers(t)
    /\ Goto(t, "commit", [Arg(t) EXCEPT !.locks = @ \cup {Arg(t).id}])
    /\ UNCHANGED <<legal, push>>
\* The commit, then the push to every user.
CommitPublish(t) ==
    /\ At(t, "commit")
    /\ LET id == Arg(t).id IN
       /\ document' = [d \in Documents |->
             IF d = id THEN [document[d] EXCEPT !.active = TRUE, !.published = TRUE]
             ELSE IF d \in Arg(t).locks THEN [document[d] EXCEPT !.active = FALSE]
             ELSE document[d]]
       /\ everPublic' = everPublic \cup {document[id].version}
    /\ SendToUsers(t, Users)
    /\ UNCHANGED <<accepted, stated, push>>
\* A statement fails, Postgres breaks a deadlock, or the server stops.
AbortPublish(t) ==
    /\ task[t].pc \in {"deactivate", "activate", "commit"}
    /\ Done(t)
    /\ UNCHANGED <<legal, push>>

\* resolveActiveTermsVersions: the last active document read, if any.
ActiveVersions ==
    IF ActiveDocuments = {} THEN {FallbackVersion}
    ELSE {document[d].version : d \in ActiveDocuments}

\* recordTermsAcceptance: reads, then upserts; an error is swallowed.
AcceptTerms(t, u) ==
    /\ At(t, "idle")
    /\ \E v \in ActiveVersions : Goto(t, "accept", [user |-> u, version |-> v])
    /\ UNCHANGED <<legal, push>>
RecordAcceptance(t) ==
    /\ At(t, "accept")
    /\ accepted' \in {accepted, accepted \cup {<<Arg(t).user, Arg(t).version>>}}
    /\ Done(t)
    /\ UNCHANGED <<document, stated, everPublic, push>>

\* recordCharter, which the wizard posts: any version, published or not.
RecordCharter(u, v) ==
    /\ accepted' = accepted \cup {<<u, v>>}
    /\ stated' = stated \cup ({<<u, v>>} \ accepted)
    /\ UNCHANGED <<document, everPublic, push, task>>

LegalNext ==
    \/ \E t \in Tasks :
          \/ \E v \in Versions :
                CreateDocument(t, v) \/ \E d \in Documents : UpdateDocument(t, d, v)
          \/ \E d \in Documents : Publish(t, d)
          \/ \E u \in Users : AcceptTerms(t, u)
          \/ InsertDocument(t) \/ WriteDocument(t)
          \/ Deactivate(t) \/ Activate(t) \/ CommitPublish(t) \/ AbortPublish(t)
          \/ RecordAcceptance(t)
    \/ \E u \in Users, v \in Versions \cup {FallbackVersion} : RecordCharter(u, v)

-----------------------------------------------------------------------------
(* Properties                                                              *)

\* publish: once a document has been published there are terms in force at
\* every moment, however publications overlap or break off; and a purchase or a
\* publication puts a user on record only for a version that was in force.
TermsInForce ==
    /\ (\E d \in Existing : document[d].published) => ActiveDocuments # {}
    /\ \A x \in accepted \ stated : x[2] \in everPublic \cup {FallbackVersion}

\* The UserCharter table "keeps the audit trail of which version was current
\* when they agreed": every version on record was in force.
OnRecordWasInForce == \A x \in accepted : x[2] \in everPublic \cup {FallbackVersion}
=============================================================================
