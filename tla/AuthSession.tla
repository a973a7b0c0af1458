------------------------------ MODULE AuthSession ------------------------------
(***************************************************************************)
(* The session of a profile (internal/app/auth.go, the account rows of     *)
(* internal/state/auth_queries.go and the lease of internal/state/db.go):  *)
(* commands, each a process, that log in, log out, or make a request with  *)
(* the session, which they refresh when it is about to expire or was       *)
(* rejected.  The session is four entries of the OS keyring, which knows   *)
(* no transactions; the database says whether there is an account.         *)
(*                                                                         *)
(* A token is named by the grant it came with, its number in grants.       *)
(***************************************************************************)
EXTENDS Naturals, Sequences

CONSTANTS
  Commands,
  Kinds,         \* what commands are run: read, send, login, logout
  Accounts,
  None,          \* no entry, no account, no owner, no token
  MaxTries,      \* how often a lease is tried for: 100
  MayLapse,      \* whether a lease may expire under its owner
  MaxGrants      \* bound: token grants of the server

ASSUME SessionAssumption ==
  /\ Kinds \subseteq {"read", "send", "login", "logout"}
  /\ None \notin Nat /\ None \notin Accounts /\ None \notin Commands
  /\ None \notin {"read", "send", "login", "logout"}
  /\ MaxTries \in Nat \ {0} /\ MaxGrants \in Nat \ {0} /\ MayLapse \in BOOLEAN

VARIABLES
  secrets,       \* the keyring entries
  account,       \* the account rows
  loginRequired, \* the row that a rejected session leaves
  lease,         \* owner of the lease "auth-refresh"
  kind,          \* per command: what it does
  pc,            \* its next step
  at,            \* the index of the loop it is in
  session,       \* the session it read, was granted or writes
  before,        \* a login: the entries it found
  rejected,      \* a read: the access token that was answered with 401
  locked,        \* the commands that hold the lease, as far as they know
  failed,        \* the commands that could not delete an entry
  grants,        \* the server: what it granted, in order
  lapsed,        \* history: commands whose lease expired under them
  sent,          \* history: the access tokens of each command's requests
  barred,        \* history: why a command must not make any
  mishaps        \* history: what went wrong that the keyring may show

tables == <<account, loginRequired>>
control == <<kind, pc, at>>
private == <<session, before, rejected, failed>>
history == <<lapsed, sent, barred, mishaps>>
vars == <<secrets, tables, lease, control, private, locked, grants, history>>

Names == {"access", "refresh", "email"}
ReadOrder == <<"refresh", "access", "email">>
WriteByName == <<"access", "refresh", "email">>   \* mutant: the order of authSecretNames
WriteOrder == <<"refresh", "access", "email">>
NameOrder == <<"access", "refresh", "email">>
Tokens == 1..MaxGrants

Entries == [access : Tokens \cup {None}, refresh : Tokens \cup {None},
            email : Accounts \cup {None}]
NoEntries == [access |-> None, refresh |-> None, email |-> None]
SessionOf(r, n, a) == [access |-> n, refresh |-> r, email |-> a]

(* A grant replaces the refresh token it came from, if it brings a new one. *)
Grant == [from : Tokens \cup {None}, rotates : BOOLEAN]
Replaces(n, r) == r # None /\ grants[n].rotates /\ grants[n].from = r

Pcs == {"idle", "account", "flag", "entries", "decide", "lease", "refresh", "write",
        "request", "reject", "erase", "exchange", "snapshot", "store", "restore",
        "commit", "done"}

(* Signed out: no account, or one whose session was rejected. *)
Standing ==
  IF account = None THEN "out" ELSE IF loginRequired THEN "rejected" ELSE "in"

TypeOK ==
  /\ secrets \in Entries /\ account \in Accounts \cup {None}
  /\ loginRequired \in BOOLEAN /\ lease \in Commands \cup {None}
  /\ kind \in [Commands -> Kinds \cup {None}] /\ pc \in [Commands -> Pcs]
  /\ at \in [Commands -> Nat]
  /\ session \in [Commands -> Entries] /\ before \in [Commands -> Entries]
  /\ rejected \in [Commands -> Tokens \cup {None}]
  /\ locked \subseteq Commands /\ failed \subseteq Commands
  /\ grants \in Seq(Grant) /\ Len(grants) <= MaxGrants
  /\ lapsed \subseteq Commands
  /\ sent \in [Commands -> Seq(Tokens)]
  /\ barred \in [Commands -> {"no", "rejected", "out"}]
  /\ mishaps \subseteq {"lapse", "restore", "loss"}

(* A new profile, or one with a session of the first grant. *)
Init ==
  /\ \/ secrets = NoEntries /\ account = None /\ grants = <<>>
     \/ \E a \in Accounts :
          /\ secrets = SessionOf(1, 1, a) /\ account = a
          /\ grants = <<[from |-> None, rotates |-> TRUE]>>
  /\ loginRequired = FALSE /\ lease = None
  /\ kind = [c \in Commands |-> None] /\ pc = [c \in Commands |-> "idle"]
  /\ at = [c \in Commands |-> 1]
  /\ session = [c \in Commands |-> NoEntries] /\ before = [c \in Commands |-> NoEntries]
  /\ rejected = [c \in Commands |-> None] /\ locked = {} /\ failed = {}
  /\ lapsed = {} /\ mishaps = {}
  /\ sent = [c \in Commands |-> <<>>] /\ barred = [c \in Commands |-> "no"]

-----------------------------------------------------------------------------
Goto(c, step) ==
  pc' = [pc EXCEPT ![c] = step] /\ at' = [at EXCEPT ![c] = 1] /\ UNCHANGED kind
(* The loop over the three entries: the next one, or the step after it. *)
Onward(c, step) ==
  IF at[c] < 3 THEN at' = [at EXCEPT ![c] = @ + 1] /\ UNCHANGED <<pc, kind>> ELSE Goto(c, step)

ReleasedByAnyone(c) == IF c \in locked THEN None ELSE lease   \* mutant: no owner
Released(c) == IF c \in locked /\ lease = c THEN None ELSE lease

(* The end of the function that holds the lease: it is released ... *)
Release(c) == lease' = Released(c) /\ locked' = locked \ {c}
(* ... and the end of the command. *)
Forget(c) ==
  /\ session' = [session EXCEPT ![c] = NoEntries]
  /\ before' = [before EXCEPT ![c] = NoEntries]
  /\ rejected' = [rejected EXCEPT ![c] = None]
  /\ failed' = failed \ {c}
End(c) == Goto(c, "done") /\ Release(c) /\ Forget(c)
Stay == UNCHANGED <<lease, locked, private>>

Begin(c) ==
  /\ pc[c] = "idle"
  /\ \E k \in Kinds :
       /\ kind' = [kind EXCEPT ![c] = k]
       /\ pc' = [pc EXCEPT ![c] =
                   CASE k = "login" -> "exchange" [] k = "logout" -> "erase" [] OTHER -> "account"]
  /\ barred' = [barred EXCEPT ![c] = IF Standing = "in" THEN "no" ELSE Standing]
  /\ UNCHANGED <<secrets, tables, at, grants, lapsed, sent, mishaps>> /\ Stay

-----------------------------------------------------------------------------
(* authReadLocal.  A session without account, refresh token or e-mail, or   *)
(* one that was rejected, ends the command with "login is required".        *)
ReadAccount(c) ==
  /\ pc[c] = "account"
  /\ \/ account = None /\ End(c)
     \/ account # None /\ Goto(c, "flag") /\ Stay
  /\ UNCHANGED <<secrets, tables, grants, history>>

ReadFlagOnly(c) ==   \* mutant: a rejected session may be used
  /\ pc[c] = "flag"
  /\ Goto(c, "entries") /\ Stay
  /\ UNCHANGED <<secrets, tables, grants, history>>

ReadFlag(c) ==
  /\ pc[c] = "flag"
  /\ \/ loginRequired /\ End(c)
     \/ ~ loginRequired /\ Goto(c, "entries") /\ Stay
  /\ UNCHANGED <<secrets, tables, grants, history>>

ReadEntry(c) ==
  LET name == ReadOrder[at[c]] IN
  /\ pc[c] = "entries"
  /\ \/ name # "access" /\ secrets[name] = None /\ End(c)
     \/ /\ name # "access" => secrets[name] # None
        /\ session' = [session EXCEPT ![c][name] = secrets[name]]
        /\ Onward(c, "decide")
        /\ UNCHANGED <<lease, locked, before, rejected, failed>>
  /\ UNCHANGED <<secrets, tables, grants, history>>

UsableIfAny(c, current) ==   \* mutant: the rejected token is not compared
  /\ session[c].access # None
  /\ IF rejected[c] = None THEN current ELSE c \in locked

(* A session is used as it is while its access token is current, which the  *)
(* clock decides, or, under the lease, when another command has replaced    *)
(* the rejected token.                                                      *)
Usable(c, current) ==
  /\ session[c].access # None
  /\ IF rejected[c] = None THEN current
     ELSE c \in locked /\ session[c].access # rejected[c]

Decide(c) ==
  /\ pc[c] = "decide"
  /\ \E current \in BOOLEAN :
       \/ Usable(c, current) /\ Goto(c, "request") /\ Release(c) /\ UNCHANGED private
       \/ ~ Usable(c, current) /\ c \in locked /\ Goto(c, "refresh") /\ Stay
       \/ /\ ~ Usable(c, current) /\ c \notin locked /\ Goto(c, "lease")
          /\ session' = [session EXCEPT ![c] = NoEntries]
          /\ UNCHANGED <<lease, locked, before, rejected, failed>>
  /\ UNCHANGED <<secrets, tables, grants, history>>

(* The lease is tried for again and again; under it, all is read anew. *)
Take(c) ==
  /\ lease' = c /\ locked' = locked \cup {c} /\ lapsed' = lapsed \ {c}
  /\ Goto(c, "account")
  /\ UNCHANGED private

AcquireAnyway(c) ==   \* mutant: the owner of the lease is not looked at
  /\ pc[c] = "lease"
  /\ Take(c)
  /\ UNCHANGED <<secrets, tables, grants, sent, barred, mishaps>>

AcquireForEver(c) ==   \* mutant: no limit to the attempts
  /\ pc[c] = "lease"
  /\ lease = None /\ Take(c)
  /\ UNCHANGED <<secrets, tables, grants, sent, barred, mishaps>>

Acquire(c) ==
  /\ pc[c] = "lease"
  /\ \/ lease = None /\ Take(c)
     \/ lease # None /\ at[c] >= MaxTries /\ End(c) /\ UNCHANGED lapsed
     \/ /\ lease # None /\ at[c] < MaxTries
        /\ at' = [at EXCEPT ![c] = @ + 1]
        /\ UNCHANGED <<kind, pc, lapsed>> /\ Stay
  /\ UNCHANGED <<secrets, tables, grants, sent, barred, mishaps>>

(* The server grants a token, with or without a new refresh token, or       *)
(* answers invalid_grant.  Its answer may be lost.                          *)
Refresh(c) ==
  LET old == session[c]
      n == Len(grants) + 1
  IN
  /\ pc[c] = "refresh"
  /\ \/ /\ n <= MaxGrants
        /\ \E rotates \in BOOLEAN :
             /\ grants' = Append(grants, [from |-> old.refresh, rotates |-> rotates])
             /\ \/ /\ session' = [session EXCEPT ![c] =
                                    SessionOf(IF rotates THEN n ELSE old.refresh, n, old.email)]
                   /\ Goto(c, "write")
                   /\ UNCHANGED <<lease, locked, before, rejected, failed, mishaps>>
                \/ End(c) /\ mishaps' = mishaps \cup {"loss"}
     \/ Goto(c, "reject") /\ Stay /\ UNCHANGED <<grants, mishaps>>
  /\ UNCHANGED <<secrets, tables, lapsed, sent, barred>>

-----------------------------------------------------------------------------
(* authWriteSession, of a refresh and of a login.  An entry that cannot be  *)
(* written may have been: the keyring then reports an error of its clean-up. *)
WriteEntry(c) ==
  LET name == WriteOrder[at[c]] IN
  /\ pc[c] = "write"
  /\ secrets' = [secrets EXCEPT ![name] = session[c][name]]
  /\ IF kind[c] = "login" \/ at[c] < 3
       THEN Onward(c, "store") /\ UNCHANGED <<lease, locked>>
       ELSE Goto(c, "request") /\ Release(c)
  /\ UNCHANGED <<private, tables, grants, history>>

WriteFails(c) ==
  LET name == WriteOrder[at[c]] IN
  /\ pc[c] = "write"
  /\ \/ secrets' = [secrets EXCEPT ![name] = session[c][name]]
     \/ UNCHANGED secrets
  /\ \/ kind[c] = "login" /\ Goto(c, "restore") /\ Stay /\ mishaps' = mishaps \cup {"restore"}
     \/ kind[c] # "login" /\ End(c) /\ mishaps' = mishaps \cup {"loss"}
  /\ UNCHANGED <<tables, grants, lapsed, sent, barred>>

-----------------------------------------------------------------------------
(* AuthDo.  The answer is final, or 401: a read is then tried once more.    *)
Request(c) ==
  LET again == kind[c] = "read" /\ rejected[c] = None IN
  /\ pc[c] = "request"
  /\ sent' = [sent EXCEPT ![c] = Append(@, session[c].access)]
  /\ \/ End(c)
     \/ ~ again /\ Goto(c, "reject") /\ Stay
     \/ /\ again /\ Goto(c, "account")
        /\ rejected' = [rejected EXCEPT ![c] = session[c].access]
        /\ session' = [session EXCEPT ![c] = NoEntries]
        /\ UNCHANGED <<lease, locked, before, failed>>
  /\ UNCHANGED <<secrets, tables, grants, lapsed, barred, mishaps>>

(* authInvalidateSession: errors are ignored, of the row and of the entries. *)
Reject(c) ==
  /\ pc[c] = "reject"
  /\ loginRequired' \in {loginRequired, TRUE}
  /\ session' = [session EXCEPT ![c] = NoEntries]
  /\ Goto(c, "erase")
  /\ UNCHANGED <<secrets, account, lease, locked, before, rejected, failed, grants, history>>

(* authDeleteSecrets tries all of them; a logout then stops if one failed.  *)
EraseEntry(c) ==
  LET name == NameOrder[at[c]] IN
  /\ pc[c] = "erase"
  /\ \E ok \in BOOLEAN :
       /\ \/ secrets' = [secrets EXCEPT ![name] = None]
          \/ ~ ok /\ UNCHANGED secrets
       /\ \/ /\ at[c] < 3 \/ (kind[c] = "logout" /\ ok /\ c \notin failed)
             /\ Onward(c, "commit")
             /\ failed' = IF ok THEN failed ELSE failed \cup {c}
             /\ UNCHANGED <<lease, locked, session, before, rejected>>
          \/ /\ at[c] >= 3 /\ ~ (kind[c] = "logout" /\ ok /\ c \notin failed)
             /\ End(c)
  /\ UNCHANGED <<tables, grants, history>>

(* AuthLogout.  A command that began with a rejected session is from now on *)
(* one that runs beside a logout.                                           *)
CommitLogout(c) ==
  /\ pc[c] = "commit"
  /\ account' = None /\ loginRequired' = FALSE
  /\ barred' = [d \in Commands |-> IF barred[d] = "rejected" THEN "no" ELSE barred[d]]
  /\ End(c)
  /\ UNCHANGED <<secrets, grants, lapsed, sent, mishaps>>

-----------------------------------------------------------------------------
(* AuthLogin: the code is exchanged, the entries are remembered and written, *)
(* the account is stored; if that fails, the entries are put back.          *)
Exchange(c) ==
  LET n == Len(grants) + 1 IN
  /\ pc[c] = "exchange" /\ n <= MaxGrants
  /\ grants' = Append(grants, [from |-> None, rotates |-> TRUE])
  /\ \E a \in Accounts : session' = [session EXCEPT ![c] = SessionOf(n, n, a)]
  /\ Goto(c, "snapshot")
  /\ UNCHANGED <<secrets, tables, lease, locked, before, rejected, failed, history>>

Snapshot(c) ==
  LET name == NameOrder[at[c]] IN
  /\ pc[c] = "snapshot"
  /\ before' = [before EXCEPT ![c][name] = secrets[name]]
  /\ Onward(c, "write")
  /\ UNCHANGED <<secrets, tables, lease, locked, session, rejected, failed, grants, history>>

StoreAccount(c) ==
  /\ pc[c] = "store"
  /\ \/ /\ account' = session[c].email /\ loginRequired' = FALSE
        /\ barred' = [d \in Commands |-> "no"]
        /\ End(c)
        /\ UNCHANGED mishaps
     \/ /\ Goto(c, "restore") /\ Stay
        /\ mishaps' = mishaps \cup {"restore"}
        /\ UNCHANGED <<tables, barred>>
  /\ UNCHANGED <<secrets, grants, lapsed, sent>>

RestoreEntry(c) ==
  LET name == NameOrder[at[c]] IN
  /\ pc[c] = "restore"
  /\ \/ secrets' = [secrets EXCEPT ![name] = before[c][name]]
     \/ UNCHANGED secrets
  /\ \/ at[c] < 3 /\ Onward(c, "done") /\ Stay
     \/ at[c] >= 3 /\ End(c)
  /\ UNCHANGED <<tables, grants, history>>

-----------------------------------------------------------------------------
(* A read, the lease or the token request fails. *)
Fail(c) ==
  /\ pc[c] \in {"account", "flag", "entries", "lease", "refresh", "exchange",
                "snapshot", "commit"}
  /\ End(c)
  /\ UNCHANGED <<secrets, tables, grants, history>>

(* The process ends; its lease stays until it expires. *)
Crash(c) ==
  /\ pc[c] \notin {"idle", "done"}
  /\ Goto(c, "done") /\ Forget(c)
  /\ locked' = locked \ {c}
  /\ mishaps' = IF pc[c] = "write" THEN mishaps \cup {"loss"} ELSE mishaps
  /\ UNCHANGED <<secrets, tables, lease, grants, lapsed, sent, barred>>

(* A lease expires: without its owner, or under it. *)
Lapse ==
  /\ lease # None /\ lease' = None
  /\ \/ lease \notin locked /\ UNCHANGED <<lapsed, mishaps>>
     \/ /\ lease \in locked /\ MayLapse
        /\ lapsed' = lapsed \cup {lease} /\ mishaps' = mishaps \cup {"lapse"}
  /\ UNCHANGED <<secrets, tables, control, private, locked, grants, sent, barred>>

Step(c) ==
  \/ ReadAccount(c) \/ ReadFlag(c) \/ ReadEntry(c) \/ Decide(c) \/ Acquire(c)
  \/ Refresh(c) \/ WriteEntry(c) \/ WriteFails(c) \/ Request(c) \/ Reject(c)
  \/ EraseEntry(c) \/ CommitLogout(c) \/ Exchange(c) \/ Snapshot(c)
  \/ StoreAccount(c) \/ RestoreEntry(c)

Next == (\E c \in Commands : Begin(c) \/ Step(c) \/ Fail(c) \/ Crash(c)) \/ Lapse

Spec == Init /\ [][Next]_vars
(* A command that was started goes on to its end, unless it fails or its    *)
(* process ends.  Nothing makes a lease expire.                              *)
RunningSpec == Spec /\ \A c \in Commands : WF_vars(Step(c))

-----------------------------------------------------------------------------
(* A command that begins signed out, with no account or a rejected session,  *)
(* makes no request unless a login is completed while it runs, whatever a    *)
(* refresh under way writes to the keyring after the logout's deletions.     *)
SignedOutIsSilent == \A c \in Commands : barred[c] # "no" => sent[c] = <<>>

(* Who refreshes holds the lease, as long as it has not expired: no release  *)
(* of another command ends it, and nobody else gets it.                      *)
RefresherHoldsLease ==
  \A c \in Commands : c \in locked \ lapsed => lease = c

(* The keyring never holds the access token of a grant beside the refresh    *)
(* token which that grant replaced, whenever a command stops between two     *)
(* writes: the profile would be left with a token that is no longer valid.   *)
RefreshTokenFirst ==
  mishaps \subseteq {"loss"} =>
    \A n \in Tokens : secrets.access = n /\ n \in DOMAIN grants => ~ Replaces(n, secrets.refresh)

(* A refresh token that a grant replaced is not presented again, which would *)
(* end the session: not when several commands find the token expired at once *)
(* and not when the access token was rejected under all of them.             *)
TokensArePresentedOnce ==
  mishaps = {} =>
    \A c \in Commands : pc[c] = "refresh" =>
      \A n \in DOMAIN grants : ~ Replaces(n, session[c].refresh)

(* A send is never repeated; a read, which here is any request that is no    *)
(* create and no send, a mark-read too, is repeated once, with another token *)
(* than the rejected one.                                                    *)
RepeatsAreSafe ==
  \A c \in Commands :
    /\ kind[c] = "send" => Len(sent[c]) <= 1
    /\ Len(sent[c]) <= 2
    /\ Len(sent[c]) = 2 => sent[c][1] # sent[c][2]

(* A profile without an account, where nobody logs in, has no secrets: the   *)
(* outcome of a logout, of which auth_test.go:365 says that no secret        *)
(* "remains" and auth.go:199 reports "cleared_local_session".                *)
LogoutClears ==
  account = None /\ (\A c \in Commands : kind[c] # "login") => secrets = NoEntries

(* A started command ends, also when the owner of the lease is gone.         *)
CommandsEnd == \A c \in Commands : pc[c] # "idle" ~> pc[c] = "done"

=============================================================================
