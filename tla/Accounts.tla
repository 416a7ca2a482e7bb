------------------------------ MODULE Accounts ------------------------------
(***************************************************************************)
(* Sign-up, sign-in and verification: AuthService and the account half of  *)
(* UsersService.  An account is two records kept in two systems - the      *)
(* identity in Supabase and the User row - with no transaction across      *)
(* them: every handler writes one, awaits, and writes the other.           *)
(*                                                                         *)
(* Supabase and Prelude (the SMS codes) are external.  A person passes the *)
(* address of their own identity to the e-mail code handlers; passwords,   *)
(* names and the wording of errors are left out.                           *)
(***************************************************************************)
EXTENDS Integers, Requests

CONSTANTS
    Ids,      \* Supabase identities
    Emails,
    Phones,
    UserRoles

ASSUME EmailsAssumption == Null \notin Emails

UserRow ==
    [role : UserRoles, email : Emails, phone : Phones \cup {Null},
     emailVerified : BOOLEAN, phoneVerified : BOOLEAN]
ASSUME UserAssumption == Null \notin UserRow

VARIABLES
    auth,     \* Supabase: the identities
    token,    \* the claims of the session each identity holds, if it holds one
    late,     \* sign-ups still running in Supabase after their request gave up
    codes,    \* e-mailed codes not used yet: <<kind, address>>
    texts,    \* numbers with an SMS code not used yet
    user,     \* the User rows
    proven,   \* history: <<i, p>>, identity i has entered the code sent to p
    edited,   \* history: identities whose number was edited in the profile
    missed    \* history: identities whose number the row has missed

accounts == <<auth, token, late, codes, texts, user, proven, edited, missed>>

\* email_confirmed_at is set: confirmed; the provider's metadata: meta.
Unknown == [known |-> FALSE, email |-> Null, confirmed |-> FALSE, meta |-> Null, phone |-> Null]

AccountsInit ==
    /\ auth = [i \in Ids |-> Unknown]
    /\ token = [i \in Ids |-> Null]
    /\ late = {}
    /\ codes = {}
    /\ texts = {}
    /\ user = [i \in Ids |-> Null]
    /\ proven = {}
    /\ edited = {}
    /\ missed = {}

EmailFree(e) == \A i \in Ids : auth[i].email # e
Rows == {i \in Ids : user[i] # Null}

\* toSession: the claims are those of the identity when the session is made.
Session(a) == [email |-> a.email, phone |-> a.phone]
OpenSession(i, a) == token' = [token EXCEPT ![i] = Session(a)]

\* createFromJwt has read the identity and not yet inserted the row.
RowSteps == {"checkEmail", "checkTyped", "insertUser"}

-----------------------------------------------------------------------------
(* Sessions                                                                *)

NewIdentity(e, confirmed) ==
    [known |-> TRUE, email |-> e, confirmed |-> confirmed, meta |-> e, phone |-> Null]

\* signUp: Supabase answers with a session, or without one when it wants the
\* address confirmed first.
SignUp(i, e, confirmed) ==
    /\ ~auth[i].known /\ EmailFree(e)
    /\ auth' = [auth EXCEPT ![i] = NewIdentity(e, confirmed)]
    /\ IF confirmed THEN OpenSession(i, NewIdentity(e, TRUE)) ELSE UNCHANGED token
    /\ UNCHANGED <<late, codes, texts, user, proven, edited, missed, task>>

\* withTimeout gives up on Supabase, which goes on.
SignUpTimesOut(i, e) ==
    /\ ~auth[i].known /\ EmailFree(e) /\ late = {}
    /\ late' = {<<i, e>>}
    /\ UNCHANGED <<auth, token, codes, texts, user, proven, edited, missed, task>>

LateSignUp(i, e) ==
    /\ <<i, e>> \in late
    /\ late' = late \ {<<i, e>>}
    /\ IF ~auth[i].known /\ EmailFree(e)
       THEN auth' = [auth EXCEPT ![i] = NewIdentity(e, TRUE)]
       ELSE UNCHANGED auth
    /\ UNCHANGED <<token, codes, texts, user, proven, edited, missed, task>>

\* signIn and refresh.
SignIn(i) ==
    /\ auth[i].known /\ auth[i].confirmed
    /\ OpenSession(i, auth[i])
    /\ UNCHANGED <<auth, late, codes, texts, user, proven, edited, missed, task>>
Refresh(i) ==
    /\ token[i] # Null
    /\ OpenSession(i, auth[i])
    /\ UNCHANGED <<auth, late, codes, texts, user, proven, edited, missed, task>>

\* signInWithGoogle: a new identity, or one Supabase links by its address.
SignInWithGoogle(i, e) ==
    LET a == IF auth[i].known THEN [auth[i] EXCEPT !.confirmed = TRUE] ELSE NewIdentity(e, TRUE) IN
    /\ auth[i].known => auth[i].email = e
    /\ ~auth[i].known => EmailFree(e)
    /\ auth' = [auth EXCEPT ![i] = a]
    /\ OpenSession(i, a)
    /\ UNCHANGED <<late, codes, texts, user, proven, edited, missed, task>>

\* A provider that gives no address: the session Supabase opens by itself.
SignInWithoutEmail(i) ==
    /\ ~auth[i].known
    /\ auth' = [auth EXCEPT ![i].known = TRUE]
    /\ OpenSession(i, Unknown)
    /\ UNCHANGED <<late, codes, texts, user, proven, edited, missed, task>>

\* signOut; a token already revoked is no error.
SignOut(i) ==
    /\ token[i] # Null
    /\ token' = [token EXCEPT ![i] = Null]
    /\ UNCHANGED <<auth, late, codes, texts, user, proven, edited, missed, task>>

\* requestPasswordReset: succeeds for an unknown address too.
RequestPasswordReset(e) ==
    /\ codes' = IF EmailFree(e) THEN codes ELSE codes \cup {<<"recovery", e>>}
    /\ UNCHANGED <<auth, token, late, texts, user, proven, edited, missed, task>>

\* verifyPasswordResetOtp, which opens the session updatePassword needs.
VerifyPasswordResetOtp(i) ==
    /\ auth[i].email # Null /\ <<"recovery", auth[i].email>> \in codes
    /\ codes' = codes \ {<<"recovery", auth[i].email>>}
    /\ auth' = [auth EXCEPT ![i].confirmed = TRUE]
    /\ OpenSession(i, auth[i])
    /\ UNCHANGED <<late, texts, user, proven, edited, missed, task>>

-----------------------------------------------------------------------------
(* E-mail codes                                                            *)

\* attachEmail, and the attach of requestEmailOtp: the address is unconfirmed.
WithEmail(i, e) == [auth EXCEPT ![i].email = e, ![i].confirmed = FALSE]

AttachEmail(i, e) ==
    /\ token[i] # Null /\ EmailFree(e)
    /\ auth' = WithEmail(i, e)
    /\ UNCHANGED <<token, late, codes, texts, user, proven, edited, missed, task>>

\* requestEmailOtp: attaches, then asks Supabase to send.
RequestEmailOtp(t, i, e) ==
    /\ At(t, "idle") /\ token[i] # Null
    /\ \/ auth[i].email = e /\ UNCHANGED auth
       \/ EmailFree(e) /\ auth' = WithEmail(i, e)
    /\ Goto(t, "sendEmail", [id |-> i, email |-> e])
    /\ UNCHANGED <<token, late, codes, texts, user, proven, edited, missed>>
SendEmail(t) ==
    /\ At(t, "sendEmail")
    /\ codes' = IF EmailFree(Arg(t).email) THEN codes ELSE codes \cup {<<"email", Arg(t).email>>}
    /\ Done(t)
    /\ UNCHANGED <<auth, token, late, texts, user, proven, edited, missed>>

\* verifyEmailOtp: Supabase confirms and opens a session, then the row, if
\* there is one, is marked.
VerifyEmailOtp(t, i) ==
    /\ At(t, "idle")
    /\ auth[i].email # Null /\ <<"email", auth[i].email>> \in codes
    /\ codes' = codes \ {<<"email", auth[i].email>>}
    /\ auth' = [auth EXCEPT ![i].confirmed = TRUE]
    /\ OpenSession(i, auth[i])
    /\ Goto(t, "mirrorEmail", [id |-> i])
    /\ UNCHANGED <<late, texts, user, proven, edited, missed>>
MirrorEmail(t) ==
    /\ At(t, "mirrorEmail")
    /\ user' = [i \in Ids |-> IF i = Arg(t).id /\ i \in Rows
                              THEN [user[i] EXCEPT !.emailVerified = TRUE] ELSE user[i]]
    /\ Done(t)
    /\ UNCHANGED <<auth, token, late, codes, texts, proven, edited, missed>>

\* requestSocialEmailOtp: assertEmailNotTaken, then Supabase sends, creating
\* the identity if the address has none.
RequestSocialEmailOtp(t, e) ==
    /\ At(t, "idle")
    /\ \A i \in Rows : user[i].email # e
    /\ Goto(t, "sendSocial", [email |-> e])
    /\ UNCHANGED accounts
SendSocial(t) ==
    /\ At(t, "sendSocial")
    /\ LET e == Arg(t).email IN
       \/ ~EmailFree(e) /\ codes' = codes \cup {<<"email", e>>} /\ UNCHANGED auth
       \/ EmailFree(e) /\ \E i \in Ids :
             /\ ~auth[i].known
             /\ auth' = [auth EXCEPT ![i] = NewIdentity(e, FALSE)]
             /\ codes' = codes \cup {<<"email", e>>}
       \/ UNCHANGED <<auth, codes>>
    /\ Done(t)
    /\ UNCHANGED <<token, late, texts, user, proven, edited, missed>>
\* verifySocialEmailOtp: nobody is signed in; the session is that of the
\* identity of the address.
VerifySocialEmailOtp(t, e) ==
    /\ At(t, "idle") /\ <<"email", e>> \in codes
    /\ \E i \in Ids :
          /\ auth[i].email = e
          /\ auth' = [auth EXCEPT ![i].confirmed = TRUE]
          /\ OpenSession(i, auth[i])
          /\ Goto(t, "mirrorEmail", [id |-> i])
    /\ codes' = codes \ {<<"email", e>>}
    /\ UNCHANGED <<late, texts, user, proven, edited, missed>>

-----------------------------------------------------------------------------
(* Phone codes                                                             *)

\* assertPhoneAvailable.
PhoneAvailable(i, p) == \A j \in Rows \ {i} : user[j].phone # p

\* PreludeVerifyService, which keeps no code of its own: sendPhoneOtp is
\* refused, fails or dispatches a code; verifyPhoneOtp accepts it once.
SendPhoneOtp(p) == texts' \in {texts, texts \cup {p}}
CheckPhoneOtp(p) == p \in texts /\ texts' = texts \ {p}

\* requestPhoneOtp: the check, then Prelude sends, or does not.
RequestPhoneOtp(t, i, p) ==
    /\ At(t, "idle") /\ token[i] # Null /\ PhoneAvailable(i, p)
    /\ Goto(t, "sendText", [phone |-> p])
    /\ UNCHANGED accounts
SendText(t) ==
    /\ At(t, "sendText")
    /\ SendPhoneOtp(Arg(t).phone)
    /\ Done(t)
    /\ UNCHANGED <<auth, token, late, codes, user, proven, edited, missed>>

\* verifyPhoneOtp: Prelude accepts the code,
VerifyPhoneOtp(t, i, p) ==
    /\ At(t, "idle") /\ token[i] # Null
    /\ CheckPhoneOtp(p)
    /\ proven' = proven \cup {<<i, p>>}
    /\ Goto(t, "checkPhone", [id |-> i, phone |-> p])
    /\ UNCHANGED <<auth, token, late, codes, user, edited, missed>>
\* the number is free,
CheckPhone(t) ==
    /\ At(t, "checkPhone")
    /\ IF PhoneAvailable(Arg(t).id, Arg(t).phone) THEN Goto(t, "confirmPhone", Arg(t)) ELSE Done(t)
    /\ UNCHANGED accounts
\* Supabase, whose numbers are unique too, records it,
ConfirmPhone(t) ==
    /\ At(t, "confirmPhone")
    /\ IF \E j \in Ids \ {Arg(t).id} : auth[j].phone = Arg(t).phone
       THEN Done(t) /\ UNCHANGED auth
       ELSE /\ auth' = [auth EXCEPT ![Arg(t).id].phone = Arg(t).phone]
            /\ Goto(t, "mirrorPhone", Arg(t))
    /\ UNCHANGED <<token, late, codes, texts, user, proven, edited, missed>>
\* The row misses p, confirmed for i: it is about to be inserted as read before,
\* or another number has been confirmed since.
Misses(i, p) ==
    IF i \in Rows THEN auth[i].phone # p
    ELSE \E u \in Tasks : task[u].pc \in RowSteps /\ Arg(u).id = i

\* and the row, if there is one, follows: unless the number has been taken
\* since, or the statement fails.
MirrorPhone(t) ==
    /\ At(t, "mirrorPhone")
    /\ LET i == Arg(t).id
           p == Arg(t).phone IN
       \/ /\ i \in Rows => PhoneAvailable(i, p)
          /\ user' = IF i \in Rows
                     THEN [user EXCEPT ![i].phone = p, ![i].phoneVerified = TRUE]
                     ELSE user
          /\ edited' = edited \ {i}
          /\ missed' = IF Misses(i, p) THEN missed \cup {i} ELSE missed \ {i}
       \/ /\ missed' = missed \cup {i}
          /\ UNCHANGED <<user, edited>>
    /\ Done(t)
    /\ UNCHANGED <<auth, token, late, codes, texts, proven>>

\* updateProfile: the number is edited without being proven again.
UpdateProfile(t, i, p) ==
    /\ At(t, "idle") /\ token[i] # Null /\ i \in Rows
    /\ Goto(t, "editPhone", [id |-> i, phone |-> p])
    /\ UNCHANGED accounts
EditPhone(t) ==
    /\ At(t, "editPhone")
    /\ LET i == Arg(t).id IN
       IF PhoneAvailable(i, Arg(t).phone)
       THEN /\ user' = [user EXCEPT ![i].phone = Arg(t).phone]
            /\ edited' = edited \cup {i}
       ELSE UNCHANGED <<user, edited>>
    /\ Done(t)
    /\ UNCHANGED <<auth, token, late, codes, texts, proven, missed>>

-----------------------------------------------------------------------------
(* The User row                                                            *)

\* pickEmail.
PickEmail(claim, a) ==
    IF claim # Null THEN claim
    ELSE IF a.meta # Null THEN a.meta
    ELSE IF a.confirmed THEN a.email ELSE Null

\* createFromJwt: no row yet,
CreateFromJwt(t, i, role, typed) ==
    /\ At(t, "idle") /\ token[i] # Null /\ i \notin Rows
    /\ Goto(t, "readIdentity", [id |-> i, role |-> role, typed |-> typed, claims |-> token[i]])
    /\ UNCHANGED accounts

\* The row of an identity read as a, or Unknown: the error of getUserById is not
\* looked at, and a null user is one with nothing verified.
RowOf(k, a) ==
    [role |-> k.role, email |-> PickEmail(k.claims.email, a),
     phone |-> IF a.phone # Null THEN a.phone ELSE k.claims.phone,
     emailVerified |-> a.confirmed, phoneVerified |-> a.phone # Null]
Create(t, row) ==
    IF row.email = Null THEN Done(t)
    ELSE Goto(t, "checkEmail", [id |-> Arg(t).id, typed |-> Arg(t).typed, row |-> row])

\* Mutant: the number is taken from the session's claims.
ReadClaims(t) ==
    /\ At(t, "readIdentity")
    /\ Create(t, RowOf(Arg(t), [auth[Arg(t).id] EXCEPT !.phone = Arg(t).claims.phone]))
    /\ UNCHANGED accounts
\* the identity is read afresh, or goes unread,
ReadIdentity(t) ==
    /\ At(t, "readIdentity")
    /\ \/ /\ Create(t, RowOf(Arg(t), auth[Arg(t).id]))
          /\ UNCHANGED missed
       \/ /\ Create(t, RowOf(Arg(t), Unknown))
          /\ missed' = missed \cup {Arg(t).id}
    /\ UNCHANGED <<auth, token, late, codes, texts, user, proven, edited>>

\* assertEmailAvailableForIdentity.
EmailAvailable(i, e) == \A j \in Rows \ {i} : user[j].email # e

\* Mutant: the typed number replaces one the identity has.
CheckEmailAnyTyped(t) ==
    /\ At(t, "checkEmail")
    /\ IF ~EmailAvailable(Arg(t).id, Arg(t).row.email) THEN Done(t)
       ELSE IF Arg(t).typed # Null THEN Goto(t, "checkTyped", Arg(t))
       ELSE Goto(t, "insertUser", Arg(t))
    /\ UNCHANGED accounts
\* the address belongs to nobody else,
CheckEmail(t) ==
    /\ At(t, "checkEmail")
    /\ IF ~EmailAvailable(Arg(t).id, Arg(t).row.email) THEN Done(t)
       ELSE IF Arg(t).row.phone = Null /\ Arg(t).typed # Null THEN Goto(t, "checkTyped", Arg(t))
       ELSE Goto(t, "insertUser", Arg(t))
    /\ UNCHANGED accounts
\* a number typed and not proven is kept if it belongs to nobody else,
CheckTyped(t) ==
    /\ At(t, "checkTyped")
    /\ Goto(t, "insertUser",
            IF PhoneAvailable(Arg(t).id, Arg(t).typed)
            THEN [Arg(t) EXCEPT !.row.phone = Arg(t).typed] ELSE Arg(t))
    /\ UNCHANGED accounts
\* and the row is inserted with its stub profile, if it is still unique.
InsertUser(t) ==
    /\ At(t, "insertUser")
    /\ LET i == Arg(t).id
           row == Arg(t).row IN
       IF /\ i \notin Rows
          /\ EmailAvailable(i, row.email)
          /\ row.phone # Null => PhoneAvailable(i, row.phone)
       THEN user' = [user EXCEPT ![i] = row]
       ELSE UNCHANGED user
    /\ Done(t)
    /\ UNCHANGED <<auth, token, late, codes, texts, proven, edited, missed>>

Sessions ==
    \/ \E i \in Ids :
          \/ \E e \in Emails :
                \/ \E confirmed \in BOOLEAN : SignUp(i, e, confirmed)
                \/ SignUpTimesOut(i, e)
                \/ LateSignUp(i, e)
                \/ SignInWithGoogle(i, e)
          \/ SignIn(i) \/ Refresh(i) \/ SignInWithoutEmail(i) \/ SignOut(i)
          \/ VerifyPasswordResetOtp(i)
    \/ \E e \in Emails : RequestPasswordReset(e)

EmailCodes ==
    \/ \E i \in Ids, e \in Emails : AttachEmail(i, e)
    \/ \E t \in Tasks :
          \/ \E i \in Ids, e \in Emails : RequestEmailOtp(t, i, e)
          \/ \E e \in Emails : RequestSocialEmailOtp(t, e) \/ VerifySocialEmailOtp(t, e)
          \/ \E i \in Ids : VerifyEmailOtp(t, i)
          \/ SendEmail(t) \/ MirrorEmail(t) \/ SendSocial(t)

PhoneNumbers ==
    \E t \in Tasks :
        \/ \E i \in Ids, p \in Phones :
              RequestPhoneOtp(t, i, p) \/ VerifyPhoneOtp(t, i, p) \/ UpdateProfile(t, i, p)
        \/ SendText(t) \/ CheckPhone(t) \/ ConfirmPhone(t) \/ MirrorPhone(t) \/ EditPhone(t)

UserCreation ==
    \E t \in Tasks :
        \/ \E i \in Ids, role \in UserRoles, typed \in Phones \cup {Null} :
              CreateFromJwt(t, i, role, typed)
        \/ ReadIdentity(t) \/ CheckEmail(t) \/ CheckTyped(t) \/ InsertUser(t)

AccountsNext == Sessions \/ EmailCodes \/ PhoneNumbers \/ UserCreation

-----------------------------------------------------------------------------
(* Properties                                                              *)

\* verifyPhoneOtp, createFromJwt: a number shown as verified is one whose
\* owner entered the code sent to it, however the two records were written,
\* unless the owner has since edited it in the profile.
VerifiedPhoneWasProven ==
    \A i \in Rows :
        user[i].phoneVerified /\ i \notin edited => <<i, user[i].phone>> \in proven

\* verifyPhoneOtp mirrors onto the row, createFromJwt mirrors when the row
\* comes later: in whatever order the requests of one person run, the row
\* carries the number Supabase confirmed as soon as no mirroring is on its way.
\* Excepted, until the next code is entered, is a person whose row has missed
\* the number: the lookup or the mirroring statement failed, the mirroring came
\* between the reading of the identity and the insertion of the row, or it came
\* after that of a later code.
ConfirmedPhoneMirrored ==
    \A i \in Rows :
        \/ i \in missed
        \/ \E t \in Tasks : task[t].pc = "mirrorPhone" /\ Arg(t).id = i
        \/ auth[i].phone # Null =>
              /\ user[i].phoneVerified
              /\ i \notin edited => user[i].phone = auth[i].phone
=============================================================================
