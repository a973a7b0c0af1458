--------------------------- MODULE AuthSessionProofs ---------------------------
(***************************************************************************)
(* Proofs of the safety properties of AuthSession, for any number of        *)
(* commands, accounts, grants and attempts.                                 *)
(***************************************************************************)
EXTENDS AuthSession, TLAPS

(* Where the loops over the entries, and the commands in them, stand. *)
ControlFits(c) ==
  /\ pc[c] \in {"idle", "entries", "write", "erase", "snapshot", "restore"} => at[c] \in 1..3
  /\ pc[c] \in {"write", "request"} => session[c].access \in Tokens
  /\ pc[c] \in {"exchange", "snapshot", "store"} => kind[c] = "login"
  /\ pc[c] = "snapshot" => session[c].access \in Tokens
  /\ pc[c] = "idle" => sent[c] = <<>> /\ rejected[c] = None

Typed == TypeOK /\ \A c \in Commands : ControlFits(c)

-----------------------------------------------------------------------------
(* An entry replaced by that of another session, whichever it is. *)
LEMMA EntryReplaced ==
  ASSUME NEW s \in Entries, NEW t \in Entries, NEW name \in Names
  PROVE  /\ [s EXCEPT ![name] = t[name]] \in Entries
         /\ [s EXCEPT ![name] = t[name]].access \in {s.access, t.access}
<1>1. CASE name = "access"
  BY <1>1 DEF Entries
<1>2. CASE name = "refresh"
  BY <1>2 DEF Entries
<1>3. CASE name = "email"
  BY <1>3 DEF Entries
<1> QED BY <1>1, <1>2, <1>3 DEF Names

LEMMA EntryErased ==
  ASSUME NEW s \in Entries, NEW name \in Names
  PROVE  /\ [s EXCEPT ![name] = None] \in Entries
         /\ [s EXCEPT ![name] = None].access \in {s.access, None}
<1>1. CASE name = "access"
  BY <1>1 DEF Entries
<1>2. CASE name = "refresh"
  BY <1>2 DEF Entries
<1>3. CASE name = "email"
  BY <1>3 DEF Entries
<1> QED BY <1>1, <1>2, <1>3 DEF Names

LEMMA NothingIsAnEntry == NoEntries \in Entries /\ NoEntries.access = None
BY DEF NoEntries, Entries

LEMMA OrdersAreNames ==
  ASSUME NEW i \in 1..3
  PROVE  ReadOrder[i] \in Names /\ WriteOrder[i] \in Names /\ NameOrder[i] \in Names
BY DEF ReadOrder, WriteOrder, NameOrder, Names

LEMMA SessionsAreEntries ==
  ASSUME NEW r \in Tokens \cup {None}, NEW n \in Tokens \cup {None},
         NEW a \in Accounts \cup {None}
  PROVE  SessionOf(r, n, a) \in Entries /\ SessionOf(r, n, a).access = n
BY DEF SessionOf, Entries

LEMMA FieldsOfEntries ==
  ASSUME NEW s \in Entries
  PROVE  /\ s.access \in Tokens \cup {None} /\ s.refresh \in Tokens \cup {None}
         /\ s.email \in Accounts \cup {None}
BY DEF Entries

-----------------------------------------------------------------------------
LEMMA TypedInit == Init => Typed
<1> SUFFICES ASSUME Init PROVE Typed
  OBVIOUS
<1> USE SessionAssumption
<1>1. secrets \in Entries /\ account \in Accounts \cup {None}
  BY NothingIsAnEntry, SessionsAreEntries DEF Init, Tokens
<1>2. grants \in Seq(Grant) /\ Len(grants) <= MaxGrants
  <2>1. CASE grants = <<>>
    BY <2>1
  <2>2. CASE grants = <<[from |-> None, rotates |-> TRUE]>>
    <3>1. [from |-> None, rotates |-> TRUE] \in Grant
      BY DEF Grant
    <3> QED BY <2>2, <3>1
  <2> QED BY <2>1, <2>2 DEF Init
<1>3. /\ session \in [Commands -> Entries] /\ before \in [Commands -> Entries]
      /\ rejected \in [Commands -> Tokens \cup {None}]
  BY NothingIsAnEntry DEF Init
<1>4. /\ kind \in [Commands -> Kinds \cup {None}] /\ pc \in [Commands -> Pcs]
      /\ at \in [Commands -> Nat]
  BY DEF Init, Pcs
<1>5. /\ sent \in [Commands -> Seq(Tokens)]
      /\ barred \in [Commands -> {"no", "rejected", "out"}]
  BY DEF Init
<1>6. TypeOK
  BY <1>1, <1>2, <1>3, <1>4, <1>5 DEF Init, TypeOK
<1>7. ASSUME NEW c \in Commands PROVE ControlFits(c)
  <2>1. pc[c] = "idle" /\ at[c] = 1 /\ sent[c] = <<>> /\ rejected[c] = None
    BY DEF Init
  <2> QED BY <2>1 DEF ControlFits
<1> QED BY <1>6, <1>7 DEF Typed

(* A command that goes on takes only its own control along ...              *)
LEMMA Going ==
  ASSUME TypeOK, NEW c \in Commands, NEW step \in Pcs, Goto(c, step)
  PROVE  /\ pc' \in [Commands -> Pcs] /\ at' \in [Commands -> Nat] /\ kind' = kind
         /\ pc'[c] = step /\ at'[c] = 1
         /\ \A d \in Commands \ {c} : pc'[d] = pc[d] /\ at'[d] = at[d]
BY DEF TypeOK, Goto

LEMMA GoingOnward ==
  ASSUME TypeOK, NEW c \in Commands, NEW step \in Pcs, Onward(c, step), at[c] \in 1..3
  PROVE  /\ pc' \in [Commands -> Pcs] /\ at' \in [Commands -> Nat] /\ kind' = kind
         /\ at'[c] \in 1..3
         /\ (at[c] < 3 /\ pc'[c] = pc[c]) \/ (at[c] = 3 /\ pc'[c] = step)
         /\ \A d \in Commands \ {c} : pc'[d] = pc[d] /\ at'[d] = at[d]
<1>1. pc \in [Commands -> Pcs] /\ at \in [Commands -> Nat]
  BY DEF TypeOK
<1>2. CASE at[c] < 3
  BY <1>1, <1>2 DEF Onward
<1>3. CASE ~ at[c] < 3
  BY <1>1, <1>3, Going DEF Onward
<1> QED BY <1>2, <1>3

(* ... and one that ends leaves nothing but its lease.                      *)
LEMMA Ending ==
  ASSUME TypeOK, NEW c \in Commands, End(c)
  PROVE  /\ pc' \in [Commands -> Pcs] /\ at' \in [Commands -> Nat] /\ kind' = kind
         /\ pc'[c] = "done"
         /\ \A d \in Commands \ {c} : pc'[d] = pc[d] /\ at'[d] = at[d]
         /\ session' = [session EXCEPT ![c] = NoEntries]
         /\ before' = [before EXCEPT ![c] = NoEntries]
         /\ rejected' = [rejected EXCEPT ![c] = None]
         /\ session' \in [Commands -> Entries] /\ before' \in [Commands -> Entries]
         /\ rejected' \in [Commands -> Tokens \cup {None}]
         /\ locked' = locked \ {c} /\ failed' \subseteq Commands
         /\ lease' \in Commands \cup {None} /\ lease' = Released(c)
<1>1. "done" \in Pcs
  BY DEF Pcs
<1> QED BY <1>1, Going, NothingIsAnEntry DEF End, Release, Released, Forget, TypeOK

(* The type invariant in three parts, for the steps of its proof. *)
ControlTyped ==
  /\ kind \in [Commands -> Kinds \cup {None}] /\ pc \in [Commands -> Pcs]
  /\ at \in [Commands -> Nat]
PrivateTyped ==
  /\ session \in [Commands -> Entries] /\ before \in [Commands -> Entries]
  /\ rejected \in [Commands -> Tokens \cup {None}] /\ failed \subseteq Commands
WorldTyped ==
  /\ secrets \in Entries /\ account \in Accounts \cup {None}
  /\ loginRequired \in BOOLEAN /\ lease \in Commands \cup {None}
  /\ locked \subseteq Commands /\ grants \in Seq(Grant) /\ Len(grants) <= MaxGrants
  /\ lapsed \subseteq Commands /\ sent \in [Commands -> Seq(Tokens)]
  /\ barred \in [Commands -> {"no", "rejected", "out"}]
  /\ mishaps \subseteq {"lapse", "restore", "loss"}

LEMMA EntryOfCommand ==
  ASSUME NEW f \in [Commands -> Entries], NEW c \in Commands, NEW t \in Entries,
         NEW name \in Names, NEW g, g = [f EXCEPT ![c][name] = t[name]]
  PROVE  /\ g \in [Commands -> Entries]
         /\ g[c].access \in {f[c].access, t.access}
         /\ \A d \in Commands \ {c} : g[d] = f[d]
<1>1. g = [f EXCEPT ![c] = [f[c] EXCEPT ![name] = t[name]]]
  OBVIOUS
<1>2. f[c] \in Entries
  OBVIOUS
<1>3. /\ [f[c] EXCEPT ![name] = t[name]] \in Entries
      /\ [f[c] EXCEPT ![name] = t[name]].access \in {f[c].access, t.access}
  BY <1>2, EntryReplaced
<1> QED BY <1>1, <1>3

(* What a command that ends, or goes on with what it has, leaves of them.    *)
LEMMA EndingFits ==
  ASSUME TypeOK, \A d \in Commands : ControlFits(d), NEW c \in Commands, End(c),
         \A d \in Commands \ {c} : sent'[d] = sent[d]
  PROVE  \A d \in Commands : ControlFits(d)'
<1>1. ControlFits(c)'
  BY Ending DEF ControlFits
<1>2. ASSUME NEW d \in Commands \ {c} PROVE ControlFits(d)'
  <2>1. session'[d] = session[d] /\ rejected'[d] = rejected[d]
    BY Ending DEF TypeOK
  <2> QED BY <2>1, Ending DEF ControlFits
<1> QED BY <1>1, <1>2

LEMMA GoingFits ==
  ASSUME TypeOK, \A d \in Commands : ControlFits(d), NEW c \in Commands,
         NEW step \in Pcs \ {"idle", "write", "request", "exchange", "snapshot", "store"},
         Goto(c, step),
         \A d \in Commands \ {c} :
           sent'[d] = sent[d] /\ session'[d] = session[d] /\ rejected'[d] = rejected[d]
  PROVE  \A d \in Commands : ControlFits(d)'
<1>1. ControlFits(c)'
  BY Going DEF ControlFits
<1>2. ASSUME NEW d \in Commands \ {c} PROVE ControlFits(d)'
  BY Going DEF ControlFits
<1> QED BY <1>1, <1>2

LEMMA Granting ==
  ASSUME WorldTyped, NEW r \in Tokens \cup {None}, NEW new \in BOOLEAN,
         Len(grants) + 1 <= MaxGrants
  PROVE  LET longer == Append(grants, [from |-> r, rotates |-> new])
         IN  /\ longer \in Seq(Grant) /\ Len(longer) = Len(grants) + 1
             /\ Len(grants) + 1 \in Tokens
<1>1. [from |-> r, rotates |-> new] \in Grant
  BY DEF Grant
<1> QED BY <1>1, SessionAssumption DEF WorldTyped, Tokens

LEMMA TypedInParts == TypeOK <=> ControlTyped /\ PrivateTyped /\ WorldTyped
BY DEF TypeOK, ControlTyped, PrivateTyped, WorldTyped

-----------------------------------------------------------------------------
LEMMA TypedStep ==
  ASSUME Typed, NEW c \in Commands, Begin(c) \/ Step(c) \/ Fail(c) \/ Crash(c)
  PROVE  Typed'
<1> USE SessionAssumption
<1>0. /\ TypeOK /\ ControlTyped /\ PrivateTyped /\ WorldTyped
      /\ \A d \in Commands : ControlFits(d)
  BY TypedInParts DEF Typed
<1>p. {"idle", "account", "flag", "entries", "decide", "lease", "refresh", "write",
       "request", "reject", "erase", "exchange", "snapshot", "store", "restore",
       "commit", "done"} \subseteq Pcs
  BY DEF Pcs
<1>1. ASSUME Begin(c) PROVE Typed'
  <2>1. ControlTyped'
    BY <1>1, <1>0, <1>p DEF Begin, ControlTyped, Stay, tables, control, private, history,
         Standing
  <2>2. PrivateTyped'
    BY <1>1, <1>0, <1>p DEF Begin, PrivateTyped, Stay, tables, control, private, history,
         Standing
  <2>3. WorldTyped'
    BY <1>1, <1>0, <1>p DEF Begin, WorldTyped, Stay, tables, control, private, history, Standing
  <2>4. ControlFits(c)'
    BY <1>1, <1>0, <1>p DEF Begin, ControlTyped, PrivateTyped, ControlFits, Stay, tables,
         control, private, history, Standing
  <2>5. \A d \in Commands \ {c} : ControlFits(d)'
    BY <1>1, <1>0, <1>p DEF Begin, ControlTyped, PrivateTyped, WorldTyped, ControlFits, Stay,
         tables, control, private, history, Standing
  <2> QED BY <2>1, <2>2, <2>3, <2>4, <2>5 DEF Typed, TypeOK, ControlTyped, PrivateTyped,
       WorldTyped
<1>2. ASSUME ReadAccount(c) PROVE Typed'
  <2>1. ControlTyped'
    BY <1>2, <1>0, <1>p, Going, Ending DEF ReadAccount, ControlTyped, Stay, tables, control,
         private, history
  <2>2. PrivateTyped'
    BY <1>2, <1>0, <1>p, Going, Ending DEF ReadAccount, PrivateTyped, Stay, tables, control,
         private, history
  <2>3. WorldTyped'
    BY <1>2, <1>0, <1>p, Going, Ending DEF ReadAccount, WorldTyped, Stay, tables, control,
         private, history
  <2>4. ControlFits(c)'
    BY <1>2, <1>0, <1>p, Going, Ending DEF ReadAccount, ControlTyped, PrivateTyped,
         ControlFits, Stay, tables, control, private, history
  <2>5. \A d \in Commands \ {c} : ControlFits(d)'
    BY <1>2, <1>0, <1>p, Going, Ending DEF ReadAccount, ControlTyped, PrivateTyped,
         WorldTyped, ControlFits, Stay, tables, control, private, history
  <2> QED BY <2>1, <2>2, <2>3, <2>4, <2>5 DEF Typed, TypeOK, ControlTyped, PrivateTyped,
       WorldTyped
<1>3. ASSUME ReadFlag(c) PROVE Typed'
  <2>1. ControlTyped'
    BY <1>3, <1>0, <1>p, Going, Ending DEF ReadFlag, ControlTyped, Stay, tables, control,
         private, history
  <2>2. PrivateTyped'
    BY <1>3, <1>0, <1>p, Going, Ending DEF ReadFlag, PrivateTyped, Stay, tables, control,
         private, history
  <2>3. WorldTyped'
    BY <1>3, <1>0, <1>p, Going, Ending DEF ReadFlag, WorldTyped, Stay, tables, control,
         private, history
  <2>4. ControlFits(c)'
    BY <1>3, <1>0, <1>p, Going, Ending DEF ReadFlag, ControlTyped, PrivateTyped, ControlFits,
         Stay, tables, control, private, history
  <2>5. \A d \in Commands \ {c} : ControlFits(d)'
    BY <1>3, <1>0, <1>p, Going, Ending DEF ReadFlag, ControlTyped, PrivateTyped, WorldTyped,
         ControlFits, Stay, tables, control, private, history
  <2> QED BY <2>1, <2>2, <2>3, <2>4, <2>5 DEF Typed, TypeOK, ControlTyped, PrivateTyped,
       WorldTyped
<1>4. ASSUME ReadEntry(c) PROVE Typed'
  <2> DEFINE name == ReadOrder[at[c]]
  <2>a. pc[c] = "entries" /\ at[c] \in 1..3 /\ name \in Names
    BY <1>4, <1>0, OrdersAreNames DEF ReadEntry, ControlFits
  <2>b. CASE End(c)
    <3>1. TypeOK'
      BY <1>4, <1>0, <2>b, Ending DEF ReadEntry, TypeOK, tables, history
    <3>2. \A d \in Commands : ControlFits(d)'
      BY <1>4, <1>0, <2>b, Ending DEF ReadEntry, ControlFits, tables, history
    <3> QED BY <3>1, <3>2 DEF Typed
  <2>c. CASE ~ End(c)
    <3>1. /\ session' = [session EXCEPT ![c][name] = secrets[name]] /\ Onward(c, "decide")
          /\ UNCHANGED <<lease, locked, before, rejected, failed, secrets, tables, grants, history>>
      BY <1>4, <2>c DEF ReadEntry, tables, history
    <3>2. /\ session' \in [Commands -> Entries]
          /\ \A d \in Commands \ {c} : session'[d] = session[d]
      <4>1. session \in [Commands -> Entries] /\ secrets \in Entries
        BY <1>0 DEF PrivateTyped, WorldTyped
      <4> HIDE DEF name
      <4> QED BY <2>a, <3>1, <4>1, EntryOfCommand
    <3>3. TypeOK'
      BY <1>0, <1>p, <2>a, <3>1, <3>2, GoingOnward DEF TypeOK, tables, history
    <3>4. ControlFits(c)'
      BY <1>0, <1>p, <2>a, <3>1, GoingOnward DEF ControlFits
    <3>5. \A d \in Commands \ {c} : ControlFits(d)'
      BY <1>0, <1>p, <2>a, <3>1, <3>2, GoingOnward DEF ControlFits, history
    <3> QED BY <3>3, <3>4, <3>5 DEF Typed
  <2> QED BY <2>b, <2>c
<1>5. ASSUME Decide(c) PROVE Typed'
  <2>1. ControlTyped'
    BY <1>5, <1>0, <1>p, Going, NothingIsAnEntry, FieldsOfEntries DEF Decide, ControlTyped,
         Stay, tables, control, private, history, Release, Released, Usable
  <2>2. PrivateTyped'
    BY <1>5, <1>0, <1>p, Going, NothingIsAnEntry, FieldsOfEntries DEF Decide, PrivateTyped,
         Stay, tables, control, private, history, Release, Released, Usable
  <2>3. WorldTyped'
    BY <1>5, <1>0, <1>p, Going, NothingIsAnEntry, FieldsOfEntries DEF Decide, WorldTyped,
         Stay, tables, control, private, history, Release, Released, Usable
  <2>4. ControlFits(c)'
    BY <1>5, <1>0, <1>p, Going, NothingIsAnEntry, FieldsOfEntries DEF Decide, ControlTyped,
         PrivateTyped, ControlFits, Stay, tables, control, private, history, Release,
         Released, Usable
  <2>5. \A d \in Commands \ {c} : ControlFits(d)'
    BY <1>5, <1>0, <1>p, Going, NothingIsAnEntry, FieldsOfEntries DEF Decide, ControlTyped,
         PrivateTyped, WorldTyped, ControlFits, Stay, tables, control, private, history,
         Release, Released, Usable
  <2> QED BY <2>1, <2>2, <2>3, <2>4, <2>5 DEF Typed, TypeOK, ControlTyped, PrivateTyped,
       WorldTyped
<1>6. ASSUME Acquire(c) PROVE Typed'
  <2>1. ControlTyped'
    BY <1>6, <1>0, <1>p, Going, Ending DEF Acquire, ControlTyped, Stay, tables, control,
         private, history, Take
  <2>2. PrivateTyped'
    BY <1>6, <1>0, <1>p, Going, Ending DEF Acquire, PrivateTyped, Stay, tables, control,
         private, history, Take
  <2>3. WorldTyped'
    BY <1>6, <1>0, <1>p, Going, Ending DEF Acquire, WorldTyped, Stay, tables, control,
         private, history, Take
  <2>4. ControlFits(c)'
    BY <1>6, <1>0, <1>p, Going, Ending DEF Acquire, ControlTyped, PrivateTyped, ControlFits,
         Stay, tables, control, private, history, Take
  <2>5. \A d \in Commands \ {c} : ControlFits(d)'
    BY <1>6, <1>0, <1>p, Going, Ending DEF Acquire, ControlTyped, PrivateTyped, WorldTyped,
         ControlFits, Stay, tables, control, private, history, Take
  <2> QED BY <2>1, <2>2, <2>3, <2>4, <2>5 DEF Typed, TypeOK, ControlTyped, PrivateTyped,
       WorldTyped
<1>7. ASSUME Refresh(c) PROVE Typed'
  <2> DEFINE n == Len(grants) + 1
             old == session[c]
  <2>a. /\ old.refresh \in Tokens \cup {None} /\ old.email \in Accounts \cup {None}
        /\ UNCHANGED <<secrets, tables, lapsed, sent, barred>>
    BY <1>7, <1>0, FieldsOfEntries DEF Refresh, PrivateTyped
  <2>b. CASE Goto(c, "reject") /\ Stay /\ UNCHANGED <<grants, mishaps>>
    <3>1. TypeOK'
      BY <1>0, <1>p, <2>a, <2>b, Going DEF TypeOK, Stay, private, tables
    <3>2. \A d \in Commands : ControlFits(d)'
      BY <1>0, <1>p, <2>a, <2>b, Going DEF ControlFits, Stay, private
    <3> QED BY <3>1, <3>2 DEF Typed
  <2>c. ASSUME n <= MaxGrants, NEW rotates \in BOOLEAN,
               grants' = Append(grants, [from |-> old.refresh, rotates |-> rotates])
        PROVE  /\ n \in Tokens /\ grants' \in Seq(Grant) /\ Len(grants') <= MaxGrants
               /\ SessionOf(IF rotates THEN n ELSE old.refresh, n, old.email) \in Entries
               /\ SessionOf(IF rotates THEN n ELSE old.refresh, n, old.email).access = n
    <3>1. n \in Tokens /\ grants' \in Seq(Grant) /\ Len(grants') <= MaxGrants
      BY <1>0, <2>a, <2>c, Granting
    <3>2. (IF rotates THEN n ELSE old.refresh) \in Tokens \cup {None}
      BY <2>a, <3>1
    <3> HIDE DEF n, old
    <3> QED BY <2>a, <3>1, <3>2, SessionsAreEntries DEF old
  <2>d. ASSUME n <= MaxGrants, NEW rotates \in BOOLEAN,
               grants' = Append(grants, [from |-> old.refresh, rotates |-> rotates]),
               session' = [session EXCEPT ![c] =
                             SessionOf(IF rotates THEN n ELSE old.refresh, n, old.email)],
               Goto(c, "write"), UNCHANGED <<lease, locked, before, rejected, failed, mishaps>>
        PROVE  Typed'
    <3> DEFINE new == SessionOf(IF rotates THEN n ELSE old.refresh, n, old.email)
    <3>0. session' = [session EXCEPT ![c] = new] /\ new \in Entries /\ new.access \in Tokens
      BY <2>c, <2>d
    <3> HIDE DEF new
    <3>1. /\ session' \in [Commands -> Entries] /\ session'[c].access \in Tokens
          /\ \A d \in Commands \ {c} : session'[d] = session[d]
      BY <1>0, <3>0 DEF PrivateTyped
    <3>2. TypeOK'
      BY <1>0, <1>p, <2>a, <2>c, <2>d, <3>1, Going DEF TypeOK, tables
    <3>3. \A d \in Commands : ControlFits(d)'
      BY <1>0, <1>p, <2>a, <2>d, <3>1, Going DEF ControlFits
    <3> QED BY <3>2, <3>3 DEF Typed
  <2>e. ASSUME n <= MaxGrants, NEW rotates \in BOOLEAN,
               grants' = Append(grants, [from |-> old.refresh, rotates |-> rotates]),
               End(c), mishaps' = mishaps \cup {"loss"}
        PROVE  Typed'
    <3>1. TypeOK'
      BY <1>0, <2>a, <2>c, <2>e, Ending DEF TypeOK, tables
    <3>2. \A d \in Commands : ControlFits(d)'
      BY <1>0, <2>a, <2>e, EndingFits DEF history
    <3> QED BY <3>1, <3>2 DEF Typed
  <2> QED BY <1>7, <2>b, <2>d, <2>e DEF Refresh
<1>8. ASSUME WriteEntry(c) PROVE Typed'
  <2> DEFINE name == WriteOrder[at[c]]
  <2>a. pc[c] = "write" /\ at[c] \in 1..3 /\ name \in Names
    BY <1>8, <1>0, OrdersAreNames DEF WriteEntry, ControlFits
  <2>b. /\ secrets' \in Entries
        /\ UNCHANGED <<private, tables, grants, history>>
    BY <1>8, <1>0, <2>a, EntryReplaced DEF WriteEntry, PrivateTyped, WorldTyped
  <2>c. CASE kind[c] = "login" \/ at[c] < 3
    <3>1. Onward(c, "store") /\ UNCHANGED <<lease, locked>>
      BY <1>8, <2>c DEF WriteEntry
    <3>2. TypeOK'
      BY <1>0, <1>p, <2>a, <2>b, <3>1, GoingOnward DEF TypeOK, private, tables, history
    <3>3. \A d \in Commands : ControlFits(d)'
      BY <1>0, <1>p, <2>a, <2>b, <2>c, <3>1, GoingOnward DEF ControlFits, private, history
    <3> QED BY <3>2, <3>3 DEF Typed
  <2>d. CASE ~ (kind[c] = "login" \/ at[c] < 3)
    <3>1. Goto(c, "request") /\ Release(c)
      BY <1>8, <2>d DEF WriteEntry
    <3>2. TypeOK'
      BY <1>0, <1>p, <2>a, <2>b, <3>1, Going DEF TypeOK, private, tables, history, Release,
           Released
    <3>3. \A d \in Commands : ControlFits(d)'
      BY <1>0, <1>p, <2>a, <2>b, <3>1, Going DEF ControlFits, private, history
    <3> QED BY <3>2, <3>3 DEF Typed
  <2> QED BY <2>c, <2>d
<1>9. ASSUME WriteFails(c) PROVE Typed'
  <2> DEFINE name == WriteOrder[at[c]]
  <2>a. pc[c] = "write" /\ at[c] \in 1..3 /\ name \in Names
    BY <1>9, <1>0, OrdersAreNames DEF WriteFails, ControlFits
  <2>b. /\ secrets' \in Entries
        /\ UNCHANGED <<tables, grants, lapsed, sent, barred>>
        /\ mishaps' \subseteq {"lapse", "restore", "loss"}
    <3>1. secrets' \in {secrets, [secrets EXCEPT ![name] = session[c][name]]}
      BY <1>9 DEF WriteFails
    <3>2. [secrets EXCEPT ![name] = session[c][name]] \in Entries
      BY <1>0, <2>a, EntryReplaced DEF PrivateTyped, WorldTyped
    <3> QED BY <1>9, <1>0, <3>1, <3>2 DEF WriteFails, WorldTyped
  <2>c. CASE Goto(c, "restore") /\ Stay
    <3>1. TypeOK'
      BY <1>0, <1>p, <2>b, <2>c, Going DEF TypeOK, Stay, private, tables
    <3>2. \A d \in Commands : ControlFits(d)'
      BY <1>0, <1>p, <2>b, <2>c, Going DEF ControlFits, Stay, private
    <3> QED BY <3>1, <3>2 DEF Typed
  <2>d. CASE End(c)
    <3>1. TypeOK'
      BY <1>0, <2>b, <2>d, Ending DEF TypeOK, tables
    <3>2. \A d \in Commands : ControlFits(d)'
      BY <1>0, <2>b, <2>d, EndingFits DEF history
    <3> QED BY <3>1, <3>2 DEF Typed
  <2> QED BY <1>9, <2>c, <2>d DEF WriteFails
<1>10. ASSUME Request(c) PROVE Typed'
  <2>a. pc[c] = "request" /\ session[c].access \in Tokens
    BY <1>10, <1>0 DEF Request, ControlFits
  <2>b. /\ sent' \in [Commands -> Seq(Tokens)]
        /\ \A d \in Commands \ {c} : sent'[d] = sent[d]
        /\ UNCHANGED <<secrets, tables, grants, lapsed, barred, mishaps>>
    BY <1>10, <1>0, <2>a DEF Request, WorldTyped
  <2>c. CASE End(c)
    <3>1. TypeOK'
      BY <1>0, <2>b, <2>c, Ending DEF TypeOK, tables
    <3>2. \A d \in Commands : ControlFits(d)'
      BY <1>0, <2>b, <2>c, EndingFits DEF history
    <3> QED BY <3>1, <3>2 DEF Typed
  <2>d. CASE Goto(c, "reject") /\ Stay
    <3>1. TypeOK'
      BY <1>0, <1>p, <2>b, <2>d, Going DEF TypeOK, Stay, private, tables
    <3>2. \A d \in Commands : ControlFits(d)'
      BY <1>0, <1>p, <2>b, <2>d, GoingFits DEF Stay, private
    <3> QED BY <3>1, <3>2 DEF Typed
  <2>e. CASE /\ Goto(c, "account")
             /\ rejected' = [rejected EXCEPT ![c] = session[c].access]
             /\ session' = [session EXCEPT ![c] = NoEntries]
             /\ UNCHANGED <<lease, locked, before, failed>>
    <3>1. TypeOK'
      BY <1>0, <1>p, <2>a, <2>b, <2>e, Going, NothingIsAnEntry DEF TypeOK, tables
    <3>2. \A d \in Commands : ControlFits(d)'
      BY <1>0, <1>p, <2>b, <2>e, GoingFits DEF PrivateTyped
    <3> QED BY <3>1, <3>2 DEF Typed
  <2> QED BY <1>10, <2>c, <2>d, <2>e DEF Request
<1>11. ASSUME Reject(c) PROVE Typed'
  <2>1. ControlTyped'
    BY <1>11, <1>0, <1>p, Going, NothingIsAnEntry DEF Reject, ControlTyped, Stay, tables,
         control, private, history
  <2>2. PrivateTyped'
    BY <1>11, <1>0, <1>p, Going, NothingIsAnEntry DEF Reject, PrivateTyped, Stay, tables,
         control, private, history
  <2>3. WorldTyped'
    BY <1>11, <1>0, <1>p, Going, NothingIsAnEntry DEF Reject, WorldTyped, Stay, tables,
         control, private, history
  <2>4. ControlFits(c)'
    BY <1>11, <1>0, <1>p, Going, NothingIsAnEntry DEF Reject, ControlTyped, PrivateTyped,
         ControlFits, Stay, tables, control, private, history
  <2>5. \A d \in Commands \ {c} : ControlFits(d)'
    BY <1>11, <1>0, <1>p, Going, NothingIsAnEntry DEF Reject, ControlTyped, PrivateTyped,
         WorldTyped, ControlFits, Stay, tables, control, private, history
  <2> QED BY <2>1, <2>2, <2>3, <2>4, <2>5 DEF Typed, TypeOK, ControlTyped, PrivateTyped,
       WorldTyped
<1>12. ASSUME EraseEntry(c) PROVE Typed'
  <2> DEFINE name == NameOrder[at[c]]
  <2>a. pc[c] = "erase" /\ at[c] \in 1..3 /\ name \in Names
    BY <1>12, <1>0, OrdersAreNames DEF EraseEntry, ControlFits
  <2>b. secrets' \in Entries /\ UNCHANGED <<tables, grants, history>>
    <3>1. /\ secrets' \in {secrets, [secrets EXCEPT ![name] = None]}
          /\ UNCHANGED <<tables, grants, history>>
      BY <1>12 DEF EraseEntry
    <3>2. [secrets EXCEPT ![name] = None] \in Entries
      BY <1>0, <2>a, EntryErased DEF WorldTyped
    <3> QED BY <1>0, <3>1, <3>2 DEF WorldTyped
  <2>c. CASE End(c)
    <3>1. TypeOK'
      BY <1>0, <2>b, <2>c, Ending DEF TypeOK, tables, history
    <3>2. \A d \in Commands : ControlFits(d)'
      BY <1>0, <2>b, <2>c, EndingFits DEF history
    <3> QED BY <3>1, <3>2 DEF Typed
  <2>d. CASE ~ End(c)
    <3>1. /\ Onward(c, "commit") /\ failed' \in {failed, failed \cup {c}}
          /\ UNCHANGED <<lease, locked, session, before, rejected>>
      BY <1>12, <2>d DEF EraseEntry
    <3>2. TypeOK'
      BY <1>0, <1>p, <2>a, <2>b, <3>1, GoingOnward DEF TypeOK, tables, history
    <3>3. \A d \in Commands : ControlFits(d)'
      BY <1>0, <1>p, <2>a, <2>b, <3>1, GoingOnward DEF ControlFits, history
    <3> QED BY <3>2, <3>3 DEF Typed
  <2> QED BY <2>c, <2>d
<1>13. ASSUME CommitLogout(c) PROVE Typed'
  <2>1. ControlTyped'
    BY <1>13, <1>0, <1>p, Ending DEF CommitLogout, ControlTyped, Stay, tables, control,
         private, history
  <2>2. PrivateTyped'
    BY <1>13, <1>0, <1>p, Ending DEF CommitLogout, PrivateTyped, Stay, tables, control,
         private, history
  <2>3. WorldTyped'
    BY <1>13, <1>0, <1>p, Ending DEF CommitLogout, WorldTyped, Stay, tables, control,
         private, history
  <2>4. ControlFits(c)'
    BY <1>13, <1>0, <1>p, Ending DEF CommitLogout, ControlTyped, PrivateTyped, ControlFits,
         Stay, tables, control, private, history
  <2>5. \A d \in Commands \ {c} : ControlFits(d)'
    BY <1>13, <1>0, <1>p, Ending DEF CommitLogout, ControlTyped, PrivateTyped, WorldTyped,
         ControlFits, Stay, tables, control, private, history
  <2> QED BY <2>1, <2>2, <2>3, <2>4, <2>5 DEF Typed, TypeOK, ControlTyped, PrivateTyped,
       WorldTyped
<1>14. ASSUME Exchange(c) PROVE Typed'
  <2> DEFINE n == Len(grants) + 1
  <2>a. n \in Tokens /\ grants' \in Seq(Grant) /\ Len(grants') = n /\ n <= MaxGrants
    BY <1>14, <1>0, Granting DEF Exchange
  <2>b. PICK a \in Accounts : session' = [session EXCEPT ![c] = SessionOf(n, n, a)]
    BY <1>14 DEF Exchange
  <2>c. SessionOf(n, n, a) \in Entries /\ SessionOf(n, n, a).access = n
    BY <2>a, SessionsAreEntries
  <2>d. /\ session' \in [Commands -> Entries] /\ session'[c].access = n
        /\ \A d \in Commands \ {c} : session'[d] = session[d]
    BY <1>0, <2>b, <2>c DEF PrivateTyped
  <2>e. /\ pc[c] = "exchange" /\ Goto(c, "snapshot")
        /\ UNCHANGED <<secrets, tables, lease, locked, before, rejected, failed, history>>
    BY <1>14 DEF Exchange
  <2>f. TypeOK'
    BY <1>0, <1>p, <2>a, <2>d, <2>e, Going DEF TypeOK, tables, history
  <2>g. \A d \in Commands : ControlFits(d)'
    BY <1>0, <1>p, <2>a, <2>d, <2>e, Going DEF ControlFits, history
  <2> QED BY <2>f, <2>g DEF Typed
<1>15. ASSUME Snapshot(c) PROVE Typed'
  <2> DEFINE name == NameOrder[at[c]]
  <2>a. pc[c] = "snapshot" /\ at[c] \in 1..3 /\ name \in Names
    BY <1>15, <1>0, OrdersAreNames DEF Snapshot, ControlFits
  <2>b. /\ before' = [before EXCEPT ![c][name] = secrets[name]] /\ Onward(c, "write")
        /\ UNCHANGED <<secrets, tables, lease, locked, session, rejected, failed, grants, history>>
    BY <1>15 DEF Snapshot
  <2>c. before' \in [Commands -> Entries]
    <3>1. before \in [Commands -> Entries] /\ secrets \in Entries
      BY <1>0 DEF PrivateTyped, WorldTyped
    <3> HIDE DEF name
    <3> QED BY <2>a, <2>b, <3>1, EntryOfCommand
  <2>d. TypeOK'
    BY <1>0, <1>p, <2>a, <2>b, <2>c, GoingOnward DEF TypeOK, tables, history
  <2>e. \A d \in Commands : ControlFits(d)'
    BY <1>0, <1>p, <2>a, <2>b, GoingOnward DEF ControlFits, history
  <2> QED BY <2>d, <2>e DEF Typed
<1>16. ASSUME StoreAccount(c) PROVE Typed'
  <2>a. CASE End(c) /\ account' = session[c].email /\ loginRequired' = FALSE
    <3>1. session[c].email \in Accounts \cup {None}
      BY <1>0, FieldsOfEntries DEF PrivateTyped
    <3>2. /\ barred' \in [Commands -> {"no", "rejected", "out"}]
          /\ mishaps' \subseteq {"lapse", "restore", "loss"}
          /\ UNCHANGED <<secrets, grants, lapsed, sent>>
      BY <1>16, <1>0 DEF StoreAccount, WorldTyped, tables
    <3>3. TypeOK'
      BY <1>0, <2>a, <3>1, <3>2, Ending DEF TypeOK
    <3>4. \A d \in Commands : ControlFits(d)'
      BY <1>0, <2>a, <3>2, Ending DEF ControlFits
    <3> QED BY <3>3, <3>4 DEF Typed
  <2>b. CASE Goto(c, "restore") /\ Stay /\ UNCHANGED <<tables, barred>>
    <3>1. /\ mishaps' \subseteq {"lapse", "restore", "loss"}
          /\ UNCHANGED <<secrets, grants, lapsed, sent>>
      BY <1>16, <1>0 DEF StoreAccount, WorldTyped
    <3>2. TypeOK'
      BY <1>0, <1>p, <2>b, <3>1, Going DEF TypeOK, Stay, private, tables
    <3>3. \A d \in Commands : ControlFits(d)'
      BY <1>0, <1>p, <2>b, <3>1, Going DEF ControlFits, Stay, private
    <3> QED BY <3>2, <3>3 DEF Typed
  <2> QED BY <1>16, <2>a, <2>b DEF StoreAccount
<1>17. ASSUME RestoreEntry(c) PROVE Typed'
  <2> DEFINE name == NameOrder[at[c]]
  <2>a. pc[c] = "restore" /\ at[c] \in 1..3 /\ name \in Names
    BY <1>17, <1>0, OrdersAreNames DEF RestoreEntry, ControlFits
  <2>b. secrets' \in Entries /\ UNCHANGED <<tables, grants, history>>
    <3>1. /\ secrets' \in {secrets, [secrets EXCEPT ![name] = before[c][name]]}
          /\ UNCHANGED <<tables, grants, history>>
      BY <1>17 DEF RestoreEntry
    <3>2. [secrets EXCEPT ![name] = before[c][name]] \in Entries
      BY <1>0, <2>a, EntryReplaced DEF PrivateTyped, WorldTyped
    <3> QED BY <1>0, <3>1, <3>2 DEF WorldTyped
  <2>c. CASE End(c)
    <3>1. TypeOK'
      BY <1>0, <2>b, <2>c, Ending DEF TypeOK, tables, history
    <3>2. \A d \in Commands : ControlFits(d)'
      BY <1>0, <2>b, <2>c, EndingFits DEF history
    <3> QED BY <3>1, <3>2 DEF Typed
  <2>d. CASE ~ End(c)
    <3>1. Onward(c, "done") /\ Stay
      BY <1>17, <2>d DEF RestoreEntry
    <3>2. TypeOK'
      BY <1>0, <1>p, <2>a, <2>b, <3>1, GoingOnward DEF TypeOK, Stay, private, tables, history
    <3>3. \A d \in Commands : ControlFits(d)'
      BY <1>0, <1>p, <2>a, <2>b, <3>1, GoingOnward DEF ControlFits, Stay, private, history
    <3> QED BY <3>2, <3>3 DEF Typed
  <2> QED BY <2>c, <2>d
<1>18. ASSUME Fail(c) PROVE Typed'
  <2>1. ControlTyped'
    BY <1>18, <1>0, <1>p, Ending DEF Fail, ControlTyped, Stay, tables, control, private, history
  <2>2. PrivateTyped'
    BY <1>18, <1>0, <1>p, Ending DEF Fail, PrivateTyped, Stay, tables, control, private, history
  <2>3. WorldTyped'
    BY <1>18, <1>0, <1>p, Ending DEF Fail, WorldTyped, Stay, tables, control, private, history
  <2>4. ControlFits(c)'
    BY <1>18, <1>0, <1>p, Ending DEF Fail, ControlTyped, PrivateTyped, ControlFits, Stay,
         tables, control, private, history
  <2>5. \A d \in Commands \ {c} : ControlFits(d)'
    BY <1>18, <1>0, <1>p, Ending DEF Fail, ControlTyped, PrivateTyped, WorldTyped,
         ControlFits, Stay, tables, control, private, history
  <2> QED BY <2>1, <2>2, <2>3, <2>4, <2>5 DEF Typed, TypeOK, ControlTyped, PrivateTyped,
       WorldTyped
<1>19. ASSUME Crash(c) PROVE Typed'
  <2>1. ControlTyped'
    BY <1>19, <1>0, <1>p, Going, NothingIsAnEntry DEF Crash, ControlTyped, Stay, tables,
         control, private, history, Forget
  <2>2. PrivateTyped'
    BY <1>19, <1>0, <1>p, Going, NothingIsAnEntry DEF Crash, PrivateTyped, Stay, tables,
         control, private, history, Forget
  <2>3. WorldTyped'
    BY <1>19, <1>0, <1>p, Going, NothingIsAnEntry DEF Crash, WorldTyped, Stay, tables,
         control, private, history, Forget
  <2>4. ControlFits(c)'
    BY <1>19, <1>0, <1>p, Going, NothingIsAnEntry DEF Crash, ControlTyped, PrivateTyped,
         ControlFits, Stay, tables, control, private, history, Forget
  <2>5. \A d \in Commands \ {c} : ControlFits(d)'
    BY <1>19, <1>0, <1>p, Going, NothingIsAnEntry DEF Crash, ControlTyped, PrivateTyped,
         WorldTyped, ControlFits, Stay, tables, control, private, history, Forget
  <2> QED BY <2>1, <2>2, <2>3, <2>4, <2>5 DEF Typed, TypeOK, ControlTyped, PrivateTyped,
       WorldTyped
<1> QED BY <1>1, <1>2, <1>3, <1>4, <1>5, <1>6, <1>7, <1>8, <1>9, <1>10, <1>11, <1>12, <1>13,
     <1>14, <1>15, <1>16, <1>17, <1>18, <1>19 DEF Step

LEMMA TypedLapse ==
  ASSUME Typed, Lapse
  PROVE  Typed'
<1>1. TypeOK'
  BY DEF Typed, TypeOK, Lapse, tables, control, private
<1>2. \A c \in Commands : ControlFits(c)'
  BY DEF Typed, ControlFits, Lapse, control, private
<1> QED BY <1>1, <1>2 DEF Typed

LEMMA TypedStutter ==
  ASSUME Typed, UNCHANGED vars
  PROVE  Typed'
BY DEF Typed, TypeOK, ControlFits, vars, tables, control, private, history

LEMMA AlwaysTyped == Spec => []Typed
<1>1. ASSUME Typed, [Next]_vars PROVE Typed'
  BY <1>1, TypedStep, TypedLapse, TypedStutter DEF Next
<1> QED BY <1>1, TypedInit, PTL DEF Spec

(* TypeOK: in particular nobody presents an absent token, and the loops over *)
(* the entries stay within them.                                             *)
THEOREM TypeCorrect == Spec => []TypeOK
<1>1. Typed => TypeOK
  BY DEF Typed
<1> QED BY <1>1, AlwaysTyped, PTL

-----------------------------------------------------------------------------
(* What a step may do to the lease: nothing, release it, forget it with the  *)
(* process, or take it when it is free.                                      *)
LeaseMoves(c) ==
  \/ UNCHANGED <<lease, locked, lapsed>>
  \/ lease' = Released(c) /\ locked' = locked \ {c} /\ UNCHANGED lapsed
  \/ locked' = locked \ {c} /\ UNCHANGED <<lease, lapsed>>
  \/ lease = None /\ lease' = c /\ locked' = locked \cup {c} /\ lapsed' = lapsed \ {c}

LEMMA LeaseMovesSo ==
  ASSUME NEW c \in Commands, Begin(c) \/ Step(c) \/ Fail(c) \/ Crash(c)
  PROVE  LeaseMoves(c)
<1>1. ASSUME Begin(c) PROVE LeaseMoves(c)
  BY <1>1 DEF Begin, LeaseMoves, Stay, End, Release, history
<1>2. ASSUME ReadAccount(c) PROVE LeaseMoves(c)
  BY <1>2 DEF ReadAccount, LeaseMoves, Stay, End, Release, history
<1>3. ASSUME ReadFlag(c) PROVE LeaseMoves(c)
  BY <1>3 DEF ReadFlag, LeaseMoves, Stay, End, Release, history
<1>4. ASSUME ReadEntry(c) PROVE LeaseMoves(c)
  BY <1>4 DEF ReadEntry, LeaseMoves, Stay, End, Release, history
<1>5. ASSUME Decide(c) PROVE LeaseMoves(c)
  BY <1>5 DEF Decide, LeaseMoves, Stay, End, Release, history
<1>6. ASSUME Acquire(c) PROVE LeaseMoves(c)
  BY <1>6 DEF Acquire, LeaseMoves, Stay, End, Release, Take, history
<1>7. ASSUME Refresh(c) PROVE LeaseMoves(c)
  BY <1>7 DEF Refresh, LeaseMoves, Stay, End, Release, history
<1>8. ASSUME WriteEntry(c) PROVE LeaseMoves(c)
  BY <1>8 DEF WriteEntry, LeaseMoves, Stay, End, Release, history
<1>9. ASSUME WriteFails(c) PROVE LeaseMoves(c)
  BY <1>9 DEF WriteFails, LeaseMoves, Stay, End, Release, history
<1>10. ASSUME Request(c) PROVE LeaseMoves(c)
  BY <1>10 DEF Request, LeaseMoves, Stay, End, Release, history
<1>11. ASSUME Reject(c) PROVE LeaseMoves(c)
  BY <1>11 DEF Reject, LeaseMoves, Stay, End, Release, history
<1>12. ASSUME EraseEntry(c) PROVE LeaseMoves(c)
  BY <1>12 DEF EraseEntry, LeaseMoves, Stay, End, Release, history
<1>13. ASSUME CommitLogout(c) PROVE LeaseMoves(c)
  BY <1>13 DEF CommitLogout, LeaseMoves, Stay, End, Release, history
<1>14. ASSUME Exchange(c) PROVE LeaseMoves(c)
  BY <1>14 DEF Exchange, LeaseMoves, Stay, End, Release, history
<1>15. ASSUME Snapshot(c) PROVE LeaseMoves(c)
  BY <1>15 DEF Snapshot, LeaseMoves, Stay, End, Release, history
<1>16. ASSUME StoreAccount(c) PROVE LeaseMoves(c)
  BY <1>16 DEF StoreAccount, LeaseMoves, Stay, End, Release, history
<1>17. ASSUME RestoreEntry(c) PROVE LeaseMoves(c)
  BY <1>17 DEF RestoreEntry, LeaseMoves, Stay, End, Release, history
<1>18. ASSUME Fail(c) PROVE LeaseMoves(c)
  BY <1>18 DEF Fail, LeaseMoves, Stay, End, Release, history
<1>19. ASSUME Crash(c) PROVE LeaseMoves(c)
  BY <1>19 DEF Crash, LeaseMoves, Stay, End, Release, history
<1> QED BY <1>1, <1>2, <1>3, <1>4, <1>5, <1>6, <1>7, <1>8, <1>9, <1>10, <1>11, <1>12, <1>13,
     <1>14, <1>15, <1>16, <1>17, <1>18, <1>19 DEF Step

(* The lease belongs to who believes to hold it, until it expires.          *)
THEOREM LeaseHeld == Spec => []RefresherHoldsLease
<1>1. Init => RefresherHoldsLease
  BY DEF Init, RefresherHoldsLease
<1>2. ASSUME Typed, RefresherHoldsLease, [Next]_vars PROVE RefresherHoldsLease'
  <2>1. ASSUME NEW c \in Commands, LeaseMoves(c) PROVE RefresherHoldsLease'
    BY <1>2, <2>1, SessionAssumption DEF LeaseMoves, RefresherHoldsLease, Released
  <2>2. CASE Lapse
    BY <1>2, <2>2, SessionAssumption DEF Lapse, RefresherHoldsLease
  <2>3. CASE UNCHANGED vars
    BY <1>2, <2>3 DEF vars, history, RefresherHoldsLease
  <2> QED BY <1>2, <2>1, <2>2, <2>3, LeaseMovesSo DEF Next
<1> QED BY <1>1, <1>2, AlwaysTyped, PTL DEF Spec

-----------------------------------------------------------------------------
(* A step of one command leaves the others as they are. *)
OthersStay(c) ==
  \A d \in Commands \ {c} :
    /\ kind'[d] = kind[d] /\ pc'[d] = pc[d] /\ at'[d] = at[d] /\ session'[d] = session[d]
    /\ before'[d] = before[d] /\ rejected'[d] = rejected[d] /\ sent'[d] = sent[d]

LEMMA OthersStayOnEnd ==
  ASSUME TypeOK, NEW c \in Commands, End(c),
         \A d \in Commands \ {c} : sent'[d] = sent[d]
  PROVE  OthersStay(c)
<1>1. \A d \in Commands \ {c} :
        session'[d] = session[d] /\ before'[d] = before[d] /\ rejected'[d] = rejected[d]
  BY Ending DEF TypeOK
<1> QED BY <1>1, Ending DEF OthersStay

LEMMA OthersStayOnGoto ==
  ASSUME TypeOK, NEW c \in Commands, NEW step \in Pcs, Goto(c, step),
         \A d \in Commands \ {c} :
           /\ session'[d] = session[d] /\ before'[d] = before[d]
           /\ rejected'[d] = rejected[d] /\ sent'[d] = sent[d]
  PROVE  OthersStay(c)
BY Going DEF OthersStay

LEMMA OthersStayOnward ==
  ASSUME TypeOK, NEW c \in Commands, NEW step \in Pcs, Onward(c, step), at[c] \in 1..3,
         \A d \in Commands \ {c} :
           /\ session'[d] = session[d] /\ before'[d] = before[d]
           /\ rejected'[d] = rejected[d] /\ sent'[d] = sent[d]
  PROVE  OthersStay(c)
BY GoingOnward DEF OthersStay

LEMMA OthersStayAlways ==
  ASSUME Typed, NEW c \in Commands, Begin(c) \/ Step(c) \/ Fail(c) \/ Crash(c)
  PROVE  OthersStay(c)
<1>0. /\ TypeOK /\ \A d \in Commands : ControlFits(d)
      /\ ControlTyped /\ PrivateTyped /\ WorldTyped
  BY TypedInParts DEF Typed
<1>p. {"idle", "account", "flag", "entries", "decide", "lease", "refresh", "write",
       "request", "reject", "erase", "exchange", "snapshot", "store", "restore",
       "commit", "done"} \subseteq Pcs
  BY DEF Pcs
<1>1. ASSUME Begin(c) PROVE OthersStay(c)
  BY <1>1, <1>0, <1>p, OthersStayOnGoto, OthersStayOnEnd DEF Begin, ControlTyped,
       PrivateTyped, WorldTyped, Stay, private, history, OthersStay
<1>2. ASSUME ReadAccount(c) PROVE OthersStay(c)
  BY <1>2, <1>0, <1>p, OthersStayOnGoto, OthersStayOnEnd DEF ReadAccount, ControlTyped,
       PrivateTyped, WorldTyped, Stay, private, history
<1>3. ASSUME ReadFlag(c) PROVE OthersStay(c)
  BY <1>3, <1>0, <1>p, OthersStayOnGoto, OthersStayOnEnd DEF ReadFlag, ControlTyped,
       PrivateTyped, WorldTyped, Stay, private, history
<1>4. ASSUME ReadEntry(c) PROVE OthersStay(c)
  <2> DEFINE name == ReadOrder[at[c]]
  <2>1. at[c] \in 1..3 /\ name \in Names
    BY <1>4, <1>0, OrdersAreNames DEF ReadEntry, ControlFits
  <2>2. session \in [Commands -> Entries] /\ secrets \in Entries
    BY <1>0 DEF PrivateTyped, WorldTyped
  <2>3. CASE /\ session' = [session EXCEPT ![c][name] = secrets[name]] /\ Onward(c, "decide")
             /\ UNCHANGED <<before, rejected, sent>>
    <3>1. \A d \in Commands \ {c} : session'[d] = session[d]
      <4> HIDE DEF name
      <4> QED BY <2>1, <2>2, <2>3, EntryOfCommand
    <3> QED BY <1>0, <1>p, <2>1, <2>3, <3>1, OthersStayOnward
  <2>4. CASE End(c)
    BY <1>4, <1>0, <2>4, OthersStayOnEnd DEF ReadEntry, history
  <2> QED BY <1>4, <2>3, <2>4 DEF ReadEntry, history
<1>5. ASSUME Decide(c) PROVE OthersStay(c)
  BY <1>5, <1>0, <1>p, OthersStayOnGoto, OthersStayOnEnd DEF Decide, ControlTyped,
       PrivateTyped, WorldTyped, Stay, private, history
<1>6. ASSUME Acquire(c) PROVE OthersStay(c)
  BY <1>6, <1>0, <1>p, OthersStayOnGoto, OthersStayOnEnd DEF Acquire, ControlTyped,
       PrivateTyped, WorldTyped, Stay, private, history, Take, OthersStay
<1>7. ASSUME Refresh(c) PROVE OthersStay(c)
  BY <1>7, <1>0, <1>p, OthersStayOnGoto, OthersStayOnEnd DEF Refresh, ControlTyped,
       PrivateTyped, WorldTyped, Stay, private, history
<1>8. ASSUME WriteEntry(c) PROVE OthersStay(c)
  BY <1>8, <1>0, <1>p, OthersStayOnGoto, OthersStayOnEnd, OthersStayOnward,
       OrdersAreNames DEF WriteEntry, ControlTyped, PrivateTyped, WorldTyped, Stay, private,
       history, ControlFits
<1>9. ASSUME WriteFails(c) PROVE OthersStay(c)
  BY <1>9, <1>0, <1>p, OthersStayOnGoto, OthersStayOnEnd DEF WriteFails, ControlTyped,
       PrivateTyped, WorldTyped, Stay, private, history
<1>10. ASSUME Request(c) PROVE OthersStay(c)
  BY <1>10, <1>0, <1>p, OthersStayOnGoto, OthersStayOnEnd DEF Request, ControlTyped,
       PrivateTyped, WorldTyped, Stay, private, history
<1>11. ASSUME Reject(c) PROVE OthersStay(c)
  BY <1>11, <1>0, <1>p, OthersStayOnGoto, OthersStayOnEnd DEF Reject, ControlTyped,
       PrivateTyped, WorldTyped, Stay, private, history
<1>12. ASSUME EraseEntry(c) PROVE OthersStay(c)
  BY <1>12, <1>0, <1>p, OthersStayOnGoto, OthersStayOnEnd, OthersStayOnward,
       OrdersAreNames DEF EraseEntry, ControlTyped, PrivateTyped, WorldTyped, Stay, private,
       history, ControlFits
<1>13. ASSUME CommitLogout(c) PROVE OthersStay(c)
  BY <1>13, <1>0, <1>p, OthersStayOnGoto, OthersStayOnEnd DEF CommitLogout, ControlTyped,
       PrivateTyped, WorldTyped, Stay, private, history
<1>14. ASSUME Exchange(c) PROVE OthersStay(c)
  BY <1>14, <1>0, <1>p, OthersStayOnGoto, OthersStayOnEnd DEF Exchange, ControlTyped,
       PrivateTyped, WorldTyped, Stay, private, history
<1>15. ASSUME Snapshot(c) PROVE OthersStay(c)
  <2> DEFINE name == NameOrder[at[c]]
  <2>1. at[c] \in 1..3 /\ name \in Names
    BY <1>15, <1>0, OrdersAreNames DEF Snapshot, ControlFits
  <2>2. before \in [Commands -> Entries] /\ secrets \in Entries
    BY <1>0 DEF PrivateTyped, WorldTyped
  <2>3. CASE /\ before' = [before EXCEPT ![c][name] = secrets[name]] /\ Onward(c, "write")
             /\ UNCHANGED <<session, rejected, sent>>
    <3>1. \A d \in Commands \ {c} : before'[d] = before[d]
      <4> HIDE DEF name
      <4> QED BY <2>1, <2>2, <2>3, EntryOfCommand
    <3> QED BY <1>0, <1>p, <2>1, <2>3, <3>1, OthersStayOnward
  <2> QED BY <1>15, <2>3 DEF Snapshot, history
<1>16. ASSUME StoreAccount(c) PROVE OthersStay(c)
  BY <1>16, <1>0, <1>p, OthersStayOnGoto, OthersStayOnEnd DEF StoreAccount, ControlTyped,
       PrivateTyped, WorldTyped, Stay, private, history
<1>17. ASSUME RestoreEntry(c) PROVE OthersStay(c)
  BY <1>17, <1>0, <1>p, OthersStayOnGoto, OthersStayOnEnd, OthersStayOnward,
       OrdersAreNames DEF RestoreEntry, ControlTyped, PrivateTyped, WorldTyped, Stay,
       private, history, ControlFits
<1>18. ASSUME Fail(c) PROVE OthersStay(c)
  BY <1>18, <1>0, <1>p, OthersStayOnGoto, OthersStayOnEnd DEF Fail, ControlTyped,
       PrivateTyped, WorldTyped, Stay, private, history
<1>19. ASSUME Crash(c) PROVE OthersStay(c)
  BY <1>19, <1>0, <1>p, OthersStayOnGoto, OthersStayOnEnd DEF Crash, ControlTyped,
       PrivateTyped, WorldTyped, Stay, private, history, Forget
<1> QED BY <1>1, <1>2, <1>3, <1>4, <1>5, <1>6, <1>7, <1>8, <1>9, <1>10, <1>11, <1>12, <1>13,
     <1>14, <1>15, <1>16, <1>17, <1>18, <1>19 DEF Step

-----------------------------------------------------------------------------
(* Every token in the keyring and in a command is one that was granted, so   *)
(* that the next one differs from all of them.                               *)
Known(t) == t # None => t <= Len(grants)
TokensKnown ==
  /\ Known(secrets.access)
  /\ \A c \in Commands : Known(session[c].access) /\ Known(before[c].access) /\ Known(rejected[c])

(* What a step may do to the tokens. *)
TokenMoves(c) ==
  /\ Len(grants') \in Nat /\ Len(grants') >= Len(grants)
  /\ secrets'.access \in {secrets.access, session[c].access, before[c].access, None}
  /\ session'[c].access \in {session[c].access, secrets.access, None, Len(grants')}
  /\ before'[c].access \in {before[c].access, secrets.access, None}
  /\ rejected'[c] \in {rejected[c], session[c].access, None}

LEMMA Unmoved ==
  ASSUME Typed, NEW c \in Commands, UNCHANGED <<secrets, grants>>,
         \/ UNCHANGED <<session, before, rejected>>
         \/ End(c)
         \/ session' = [session EXCEPT ![c] = NoEntries] /\ UNCHANGED <<before, rejected>>
  PROVE  TokenMoves(c)
<1>1. Len(grants) \in Nat
  BY DEF Typed, TypeOK
<1>2. CASE UNCHANGED <<session, before, rejected>>
  BY <1>1, <1>2 DEF TokenMoves
<1>3. CASE End(c)
  BY <1>1, <1>3, Ending, NothingIsAnEntry DEF TokenMoves, Typed, TypeOK
<1>4. CASE session' = [session EXCEPT ![c] = NoEntries] /\ UNCHANGED <<before, rejected>>
  BY <1>1, <1>4, NothingIsAnEntry DEF TokenMoves, Typed, TypeOK
<1> QED BY <1>2, <1>3, <1>4

LEMMA TokensMoveSo ==
  ASSUME Typed, NEW c \in Commands, Begin(c) \/ Step(c) \/ Fail(c) \/ Crash(c)
  PROVE  TokenMoves(c)
<1>0. /\ TypeOK /\ \A d \in Commands : ControlFits(d)
      /\ ControlTyped /\ PrivateTyped /\ WorldTyped
  BY TypedInParts DEF Typed
<1>p. {"idle", "account", "flag", "entries", "decide", "lease", "refresh", "write",
       "request", "reject", "erase", "exchange", "snapshot", "store", "restore",
       "commit", "done"} \subseteq Pcs
  BY DEF Pcs
<1>1. ASSUME Begin(c) PROVE TokenMoves(c)
  BY <1>1, Unmoved DEF Begin, Stay, private
<1>2. ASSUME ReadAccount(c) PROVE TokenMoves(c)
  BY <1>2, Unmoved DEF ReadAccount, Stay, private
<1>3. ASSUME ReadFlag(c) PROVE TokenMoves(c)
  BY <1>3, Unmoved DEF ReadFlag, Stay, private
<1>4. ASSUME ReadEntry(c) PROVE TokenMoves(c)
  <2> DEFINE name == ReadOrder[at[c]]
  <2>1. at[c] \in 1..3 /\ name \in Names
    BY <1>4, <1>0, OrdersAreNames DEF ReadEntry, ControlFits
  <2>2. CASE /\ session' = [session EXCEPT ![c][name] = secrets[name]]
             /\ UNCHANGED <<secrets, grants, before, rejected>>
    <3>1. session \in [Commands -> Entries] /\ secrets \in Entries /\ Len(grants) \in Nat
      BY <1>0 DEF PrivateTyped, WorldTyped
    <3> HIDE DEF name
    <3>2. session'[c].access \in {session[c].access, secrets.access}
      BY <2>1, <2>2, <3>1, EntryOfCommand
    <3> QED BY <2>2, <3>1, <3>2 DEF TokenMoves
  <2>3. CASE End(c) /\ UNCHANGED <<secrets, grants>>
    BY <2>3, Unmoved
  <2> QED BY <1>4, <2>2, <2>3 DEF ReadEntry
<1>5. ASSUME Decide(c) PROVE TokenMoves(c)
  BY <1>5, Unmoved DEF Decide, Stay, private
<1>6. ASSUME Acquire(c) PROVE TokenMoves(c)
  BY <1>6, Unmoved DEF Acquire, Stay, private, Take
<1>7. ASSUME Refresh(c) PROVE TokenMoves(c)
  <2> DEFINE n == Len(grants) + 1
             old == session[c]
  <2>1. CASE UNCHANGED <<secrets, grants, session, before, rejected>>
    BY <2>1, Unmoved
  <2>2. ASSUME n <= MaxGrants, NEW rotates \in BOOLEAN,
               grants' = Append(grants, [from |-> old.refresh, rotates |-> rotates])
        PROVE  /\ Len(grants) \in Nat /\ Len(grants') = n /\ n \in Tokens
               /\ SessionOf(IF rotates THEN n ELSE old.refresh, n, old.email).access = n
    <3>1. old.refresh \in Tokens \cup {None} /\ Len(grants) \in Nat
      BY <1>0, FieldsOfEntries DEF PrivateTyped, WorldTyped
    <3> QED BY <1>0, <2>2, <3>1, Granting DEF SessionOf
  <2>3. ASSUME n <= MaxGrants, NEW rotates \in BOOLEAN, secrets' = secrets,
               grants' = Append(grants, [from |-> old.refresh, rotates |-> rotates]),
               session' = [session EXCEPT ![c] =
                             SessionOf(IF rotates THEN n ELSE old.refresh, n, old.email)],
               UNCHANGED <<before, rejected>>
        PROVE  TokenMoves(c)
    <3>1. session'[c].access = n
      BY <1>0, <2>2, <2>3 DEF PrivateTyped
    <3> QED BY <2>2, <2>3, <3>1 DEF TokenMoves
  <2>4. ASSUME n <= MaxGrants, NEW rotates \in BOOLEAN, secrets' = secrets,
               grants' = Append(grants, [from |-> old.refresh, rotates |-> rotates]), End(c)
        PROVE  TokenMoves(c)
    BY <1>0, <2>2, <2>4, Ending, NothingIsAnEntry DEF TokenMoves, PrivateTyped
  <2> QED BY <1>7, <2>1, <2>3, <2>4 DEF Refresh, Stay, private
<1>8. ASSUME WriteEntry(c) PROVE TokenMoves(c)
  <2> DEFINE name == WriteOrder[at[c]]
  <2>0. name \in Names
    BY <1>8, <1>0, OrdersAreNames DEF WriteEntry, ControlFits
  <2>1. secrets \in Entries /\ session[c] \in Entries /\ Len(grants) \in Nat
    BY <1>0 DEF PrivateTyped, WorldTyped
  <2>2. secrets' \in {secrets, [secrets EXCEPT ![name] = session[c][name]]} /\ grants' = grants
    BY <1>8 DEF WriteEntry
  <2> HIDE DEF name
  <2>3. secrets'.access \in {secrets.access, session[c].access}
    BY <2>0, <2>1, <2>2, EntryReplaced
  <2>4. UNCHANGED <<session, before, rejected>> \/ End(c)
    BY <1>8 DEF WriteEntry, Stay, private
  <2>5. CASE UNCHANGED <<session, before, rejected>>
    BY <2>1, <2>2, <2>3, <2>5 DEF TokenMoves
  <2>6. CASE End(c)
    BY <1>0, <2>1, <2>2, <2>3, <2>6, Ending, NothingIsAnEntry DEF TokenMoves, PrivateTyped
  <2> QED BY <2>4, <2>5, <2>6
<1>9. ASSUME WriteFails(c) PROVE TokenMoves(c)
  <2> DEFINE name == WriteOrder[at[c]]
  <2>0. name \in Names
    BY <1>9, <1>0, OrdersAreNames DEF WriteFails, ControlFits
  <2>1. secrets \in Entries /\ session[c] \in Entries /\ Len(grants) \in Nat
    BY <1>0 DEF PrivateTyped, WorldTyped
  <2>2. secrets' \in {secrets, [secrets EXCEPT ![name] = session[c][name]]} /\ grants' = grants
    BY <1>9 DEF WriteFails
  <2> HIDE DEF name
  <2>3. secrets'.access \in {secrets.access, session[c].access}
    BY <2>0, <2>1, <2>2, EntryReplaced
  <2>4. UNCHANGED <<session, before, rejected>> \/ End(c)
    BY <1>9 DEF WriteFails, Stay, private
  <2>5. CASE UNCHANGED <<session, before, rejected>>
    BY <2>1, <2>2, <2>3, <2>5 DEF TokenMoves
  <2>6. CASE End(c)
    BY <1>0, <2>1, <2>2, <2>3, <2>6, Ending, NothingIsAnEntry DEF TokenMoves, PrivateTyped
  <2> QED BY <2>4, <2>5, <2>6
<1>10. ASSUME Request(c) PROVE TokenMoves(c)
  <2>1. UNCHANGED <<secrets, grants>>
    BY <1>10 DEF Request
  <2>2. CASE End(c) \/ UNCHANGED private
    BY <2>1, <2>2, Unmoved DEF private
  <2>3. CASE /\ rejected' = [rejected EXCEPT ![c] = session[c].access]
             /\ session' = [session EXCEPT ![c] = NoEntries] /\ before' = before
    BY <1>0, <2>1, <2>3, NothingIsAnEntry DEF TokenMoves, PrivateTyped, WorldTyped
  <2> QED BY <1>10, <2>2, <2>3 DEF Request, Stay
<1>11. ASSUME Reject(c) PROVE TokenMoves(c)
  BY <1>11, Unmoved DEF Reject, Stay, private
<1>12. ASSUME EraseEntry(c) PROVE TokenMoves(c)
  <2> DEFINE name == NameOrder[at[c]]
  <2>1. name \in Names /\ secrets \in Entries /\ Len(grants) \in Nat
    BY <1>12, <1>0, OrdersAreNames DEF EraseEntry, ControlFits, WorldTyped
  <2>2. secrets' \in {secrets, [secrets EXCEPT ![name] = None]} /\ grants' = grants
    BY <1>12 DEF EraseEntry
  <2> HIDE DEF name
  <2>3. secrets'.access \in {secrets.access, None}
    BY <2>1, <2>2, EntryErased
  <2>4. UNCHANGED <<session, before, rejected>> \/ End(c)
    BY <1>12 DEF EraseEntry
  <2>5. CASE UNCHANGED <<session, before, rejected>>
    BY <2>1, <2>2, <2>3, <2>5 DEF TokenMoves
  <2>6. CASE End(c)
    BY <1>0, <2>1, <2>2, <2>3, <2>6, Ending, NothingIsAnEntry DEF TokenMoves, PrivateTyped
  <2> QED BY <2>4, <2>5, <2>6
<1>13. ASSUME CommitLogout(c) PROVE TokenMoves(c)
  BY <1>13, Unmoved DEF CommitLogout, Stay, private
<1>14. ASSUME Exchange(c) PROVE TokenMoves(c)
  <2> DEFINE n == Len(grants) + 1
  <2>1. Len(grants) \in Nat /\ Len(grants') = n
    BY <1>14, <1>0, Granting DEF Exchange, WorldTyped
  <2>2. PICK a \in Accounts : session' = [session EXCEPT ![c] = SessionOf(n, n, a)]
    BY <1>14 DEF Exchange
  <2>3. session'[c].access = n
    BY <1>0, <2>2 DEF PrivateTyped, SessionOf
  <2> QED BY <1>14, <2>1, <2>3 DEF Exchange, TokenMoves
<1>15. ASSUME Snapshot(c) PROVE TokenMoves(c)
  <2> DEFINE name == NameOrder[at[c]]
  <2>1. at[c] \in 1..3 /\ name \in Names
    BY <1>15, <1>0, OrdersAreNames DEF Snapshot, ControlFits
  <2>2. /\ before' = [before EXCEPT ![c][name] = secrets[name]]
        /\ UNCHANGED <<secrets, grants, session, rejected>>
    BY <1>15 DEF Snapshot
  <2>3. before \in [Commands -> Entries] /\ secrets \in Entries /\ Len(grants) \in Nat
    BY <1>0 DEF PrivateTyped, WorldTyped
  <2> HIDE DEF name
  <2>4. before'[c].access \in {before[c].access, secrets.access}
    BY <2>1, <2>2, <2>3, EntryOfCommand
  <2> QED BY <2>2, <2>3, <2>4 DEF TokenMoves
<1>16. ASSUME StoreAccount(c) PROVE TokenMoves(c)
  BY <1>16, Unmoved DEF StoreAccount, Stay, private
<1>17. ASSUME RestoreEntry(c) PROVE TokenMoves(c)
  <2> DEFINE name == NameOrder[at[c]]
  <2>0. name \in Names
    BY <1>17, <1>0, OrdersAreNames DEF RestoreEntry, ControlFits
  <2>1. secrets \in Entries /\ before[c] \in Entries /\ Len(grants) \in Nat
    BY <1>0 DEF PrivateTyped, WorldTyped
  <2>2. secrets' \in {secrets, [secrets EXCEPT ![name] = before[c][name]]} /\ grants' = grants
    BY <1>17 DEF RestoreEntry
  <2> HIDE DEF name
  <2>3. secrets'.access \in {secrets.access, before[c].access}
    BY <2>0, <2>1, <2>2, EntryReplaced
  <2>4. UNCHANGED <<session, before, rejected>> \/ End(c)
    BY <1>17 DEF RestoreEntry, Stay, private
  <2>5. CASE UNCHANGED <<session, before, rejected>>
    BY <2>1, <2>2, <2>3, <2>5 DEF TokenMoves
  <2>6. CASE End(c)
    BY <1>0, <2>1, <2>2, <2>3, <2>6, Ending, NothingIsAnEntry DEF TokenMoves, PrivateTyped
  <2> QED BY <2>4, <2>5, <2>6
<1>18. ASSUME Fail(c) PROVE TokenMoves(c)
  BY <1>18, Unmoved DEF Fail, Stay, private
<1>19. ASSUME Crash(c) PROVE TokenMoves(c)
  BY <1>19, <1>0, NothingIsAnEntry DEF Crash, Forget, TokenMoves, PrivateTyped, WorldTyped
<1> QED BY <1>1, <1>2, <1>3, <1>4, <1>5, <1>6, <1>7, <1>8, <1>9, <1>10, <1>11, <1>12, <1>13,
     <1>14, <1>15, <1>16, <1>17, <1>18, <1>19 DEF Step

LEMMA TokensStayKnown ==
  ASSUME Typed, Typed', TokensKnown, NEW c \in Commands, OthersStay(c), TokenMoves(c)
  PROVE  TokensKnown'
<1>1. /\ Len(grants) \in Nat /\ Len(grants') \in Nat /\ Len(grants) <= Len(grants')
  BY DEF Typed, TypeOK, TokenMoves
<1>2. \A t \in Tokens \cup {None} : Known(t) => (t # None => t <= Len(grants'))
  BY <1>1 DEF Known, Tokens
<1>3. /\ secrets \in Entries
      /\ \A d \in Commands : /\ session[d] \in Entries /\ before[d] \in Entries
                             /\ rejected[d] \in Tokens \cup {None}
  BY DEF Typed, TypeOK
<1>4. /\ secrets.access \in Tokens \cup {None}
      /\ \A d \in Commands : /\ session[d].access \in Tokens \cup {None}
                             /\ before[d].access \in Tokens \cup {None}
  BY <1>3, FieldsOfEntries
<1>5. secrets'.access # None => secrets'.access <= Len(grants')
  BY <1>2, <1>4 DEF TokenMoves, TokensKnown
<1>6. ASSUME NEW d \in Commands
      PROVE  /\ session'[d].access # None => session'[d].access <= Len(grants')
             /\ before'[d].access # None => before'[d].access <= Len(grants')
             /\ rejected'[d] # None => rejected'[d] <= Len(grants')
  <2>1. CASE d = c
    BY <1>1, <1>2, <1>3, <1>4, <2>1 DEF TokenMoves, TokensKnown
  <2>2. CASE d # c
    BY <1>2, <1>3, <1>4, <2>2 DEF OthersStay, TokensKnown
  <2> QED BY <2>1, <2>2
<1> QED BY <1>5, <1>6 DEF TokensKnown, Known

-----------------------------------------------------------------------------
(* A command that still asks has asked with the rejected token only, and    *)
(* never asks with it again.                                                *)
Asking(c) ==
  /\ pc[c] \notin {"reject", "erase", "commit", "done"} =>
       IF rejected[c] = None THEN sent[c] = <<>>
       ELSE kind[c] = "read" /\ sent[c] = <<rejected[c]>>
  /\ pc[c] \in {"snapshot", "write", "request"} /\ rejected[c] # None =>
       session[c].access # rejected[c]
SafeRepeat(c) ==
  /\ kind[c] = "send" => Len(sent[c]) <= 1
  /\ Len(sent[c]) <= 2
  /\ Len(sent[c]) = 2 => sent[c][1] # sent[c][2]

LEMMA AskingStep ==
  ASSUME Typed, TokensKnown, NEW c \in Commands, Asking(c), SafeRepeat(c),
         Begin(c) \/ Step(c) \/ Fail(c) \/ Crash(c)
  PROVE  Asking(c)' /\ SafeRepeat(c)'
<1>0. /\ TypeOK /\ \A d \in Commands : ControlFits(d)
      /\ ControlTyped /\ PrivateTyped /\ WorldTyped
  BY TypedInParts DEF Typed
<1>p. {"idle", "account", "flag", "entries", "decide", "lease", "refresh", "write",
       "request", "reject", "erase", "exchange", "snapshot", "store", "restore",
       "commit", "done"} \subseteq Pcs
  BY DEF Pcs
<1>1. ASSUME Begin(c) PROVE Asking(c)' /\ SafeRepeat(c)'
  BY <1>1, <1>0, <1>p, Going, Ending DEF Begin, Asking, SafeRepeat, ControlFits,
       ControlTyped, PrivateTyped, Stay, private, history
<1>2. ASSUME ReadAccount(c) PROVE Asking(c)' /\ SafeRepeat(c)'
  BY <1>2, <1>0, <1>p, Going, Ending DEF ReadAccount, Asking, SafeRepeat, ControlFits,
       ControlTyped, PrivateTyped, Stay, private, history
<1>3. ASSUME ReadFlag(c) PROVE Asking(c)' /\ SafeRepeat(c)'
  BY <1>3, <1>0, <1>p, Going, Ending DEF ReadFlag, Asking, SafeRepeat, ControlFits,
       ControlTyped, PrivateTyped, Stay, private, history
<1>4. ASSUME ReadEntry(c) PROVE Asking(c)' /\ SafeRepeat(c)'
  <2>1. at[c] \in 1..3 /\ pc[c] = "entries" /\ UNCHANGED <<kind, sent>>
    BY <1>4, <1>0, GoingOnward, Ending, <1>p DEF ReadEntry, ControlFits, history
  <2>2. CASE End(c)
    BY <2>1, <2>2, <1>0, Ending DEF Asking, SafeRepeat
  <2>3. CASE Onward(c, "decide") /\ UNCHANGED rejected
    BY <2>1, <2>3, <1>0, <1>p, GoingOnward DEF Asking, SafeRepeat
  <2> QED BY <1>4, <2>2, <2>3 DEF ReadEntry
<1>5. ASSUME Decide(c) PROVE Asking(c)' /\ SafeRepeat(c)'
  <2>1. UNCHANGED <<kind, sent, rejected>> /\ pc[c] = "decide"
    BY <1>5 DEF Decide, Goto, Stay, private, history
  <2>2. CASE pc'[c] = "request" /\ UNCHANGED session /\ \E current \in BOOLEAN : Usable(c, current)
    BY <2>1, <2>2 DEF Usable, Asking, SafeRepeat
  <2>3. CASE pc'[c] \in {"refresh", "lease"}
    BY <2>1, <2>3 DEF Asking, SafeRepeat
  <2> QED BY <1>5, <1>0, <1>p, <2>2, <2>3, Going DEF Decide, private
<1>6. ASSUME Acquire(c) PROVE Asking(c)' /\ SafeRepeat(c)'
  BY <1>6, <1>0, <1>p, Going, Ending DEF Acquire, Take, Asking, SafeRepeat, ControlFits,
       ControlTyped, PrivateTyped, Stay, private, history
<1>7. ASSUME Refresh(c) PROVE Asking(c)' /\ SafeRepeat(c)'
  <2> DEFINE n == Len(grants) + 1
             old == session[c]
  <2>1. kind' = kind /\ sent' = sent /\ pc[c] = "refresh"
    BY <1>7, <1>0, Ending DEF Refresh, Goto
  <2>2. CASE Goto(c, "reject") /\ Stay
    BY <1>0, <1>p, <2>1, <2>2, Going DEF Asking, SafeRepeat
  <2>3. CASE End(c)
    BY <1>0, <2>1, <2>3, Ending DEF Asking, SafeRepeat
  <2>4. ASSUME n <= MaxGrants, NEW rotates \in BOOLEAN,
               session' = [session EXCEPT ![c] =
                             SessionOf(IF rotates THEN n ELSE old.refresh, n, old.email)],
               Goto(c, "write"), rejected' = rejected
        PROVE  Asking(c)' /\ SafeRepeat(c)'
    <3>1. session'[c].access = n
      BY <1>0, <2>4 DEF PrivateTyped, SessionOf
    <3>2. pc'[c] = "write"
      BY <1>0, <1>p, <2>4, Going
    <3>3. rejected[c] # None => rejected[c] <= Len(grants) /\ rejected[c] \in Nat /\ Len(grants) \in Nat
      BY <1>0 DEF TokensKnown, Known, PrivateTyped, WorldTyped, Tokens
    <3> QED BY <2>1, <2>4, <3>1, <3>2, <3>3 DEF Asking, SafeRepeat
  <2> QED BY <1>7, <2>2, <2>3, <2>4 DEF Refresh
<1>8. ASSUME WriteEntry(c) PROVE Asking(c)' /\ SafeRepeat(c)'
  <2>1. at[c] \in 1..3 /\ pc[c] = "write" /\ UNCHANGED <<sent, session, rejected>>
    BY <1>8, <1>0 DEF WriteEntry, ControlFits, private, history
  <2>2. kind' = kind /\ pc'[c] \in {"write", "store", "request"}
    BY <1>8, <1>0, <1>p, <2>1, Going, GoingOnward DEF WriteEntry
  <2> QED BY <2>1, <2>2 DEF Asking, SafeRepeat
<1>9. ASSUME WriteFails(c) PROVE Asking(c)' /\ SafeRepeat(c)'
  BY <1>9, <1>0, <1>p, Going, Ending DEF WriteFails, Asking, SafeRepeat, ControlFits,
       ControlTyped, PrivateTyped, Stay, private, history
<1>10. ASSUME Request(c) PROVE Asking(c)' /\ SafeRepeat(c)'
  <2> DEFINE token == session[c].access
  <2>1. /\ pc[c] = "request" /\ token \in Tokens /\ token # None
        /\ sent[c] \in Seq(Tokens) /\ sent'[c] = Append(sent[c], token) /\ kind' = kind
    BY <1>10, <1>0, SessionAssumption DEF Request, ControlFits, WorldTyped, End, Goto, Tokens
  <2>2. CASE rejected[c] = None
    <3>1. sent'[c] = <<token>>
      <4>1. sent[c] = <<>>
        BY <2>1, <2>2 DEF Asking
      <4>2. ASSUME NEW t \in Tokens PROVE Append(<<>>, t) = <<t>>
        OBVIOUS
      <4> QED BY <2>1, <4>1, <4>2
    <3>2. SafeRepeat(c)'
      BY <2>1, <3>1 DEF SafeRepeat
    <3>3. pc'[c] \in {"done", "reject"} \/ (/\ pc'[c] = "account" /\ kind[c] = "read"
                                            /\ rejected'[c] = token)
      BY <1>10, <1>0, <1>p, Going, Ending DEF Request, PrivateTyped
    <3> QED BY <2>1, <3>1, <3>2, <3>3 DEF Asking
  <2>3. CASE rejected[c] # None
    <3>1. kind[c] = "read" /\ sent[c] = <<rejected[c]>> /\ token # rejected[c]
      BY <2>1, <2>3 DEF Asking
    <3>2. Len(sent'[c]) = 2 /\ sent'[c][1] = rejected[c] /\ sent'[c][2] = token
      <4>1. Len(sent[c]) = 1 /\ sent[c][1] = rejected[c]
        BY <3>1
      <4> HIDE DEF token
      <4> QED BY <2>1, <4>1
    <3>3. pc'[c] \in {"done", "reject"}
      BY <1>10, <1>0, <1>p, <2>3, Going, Ending DEF Request
    <3> QED BY <2>1, <3>1, <3>2, <3>3 DEF Asking, SafeRepeat
  <2> QED BY <2>2, <2>3
<1>11. ASSUME Reject(c) PROVE Asking(c)' /\ SafeRepeat(c)'
  BY <1>11, <1>0, <1>p, Going, Ending DEF Reject, Asking, SafeRepeat, ControlFits,
       ControlTyped, PrivateTyped, Stay, private, history
<1>12. ASSUME EraseEntry(c) PROVE Asking(c)' /\ SafeRepeat(c)'
  <2>1. at[c] \in 1..3 /\ pc[c] = "erase" /\ sent' = sent
    BY <1>12, <1>0 DEF EraseEntry, ControlFits, history
  <2>2. /\ kind' = kind /\ pc'[c] \in {"erase", "commit", "done"}
        /\ pc'[c] # "done" => UNCHANGED <<session, rejected>>
    BY <1>12, <1>0, <1>p, <2>1, GoingOnward, Ending DEF EraseEntry, Stay, private
  <2> QED BY <2>1, <2>2 DEF Asking, SafeRepeat
<1>13. ASSUME CommitLogout(c) PROVE Asking(c)' /\ SafeRepeat(c)'
  BY <1>13, <1>0, <1>p, Going, Ending DEF CommitLogout, Asking, SafeRepeat, ControlFits,
       ControlTyped, PrivateTyped, Stay, private, history
<1>14. ASSUME Exchange(c) PROVE Asking(c)' /\ SafeRepeat(c)'
  <2> DEFINE n == Len(grants) + 1
  <2>1. PICK a \in Accounts : session' = [session EXCEPT ![c] = SessionOf(n, n, a)]
    BY <1>14 DEF Exchange
  <2>2. session'[c].access = n
    BY <1>0, <2>1 DEF PrivateTyped, SessionOf
  <2>3. pc[c] = "exchange" /\ pc'[c] = "snapshot" /\ UNCHANGED <<kind, sent, rejected>>
    BY <1>14, <1>0, <1>p, Going DEF Exchange, history
  <2>4. rejected[c] # None => rejected[c] <= Len(grants) /\ rejected[c] \in Nat /\ Len(grants) \in Nat
    BY <1>0 DEF TokensKnown, Known, PrivateTyped, WorldTyped, Tokens
  <2> QED BY <2>2, <2>3, <2>4 DEF Asking, SafeRepeat
<1>15. ASSUME Snapshot(c) PROVE Asking(c)' /\ SafeRepeat(c)'
  <2>1. at[c] \in 1..3 /\ pc[c] = "snapshot" /\ sent' = sent
    BY <1>15, <1>0 DEF Snapshot, ControlFits, history
  <2>2. /\ kind' = kind /\ pc'[c] \in {"snapshot", "write", "done"}
        /\ pc'[c] # "done" => UNCHANGED <<session, rejected>>
    BY <1>15, <1>0, <1>p, <2>1, GoingOnward, Ending DEF Snapshot, Stay, private
  <2> QED BY <2>1, <2>2 DEF Asking, SafeRepeat
<1>16. ASSUME StoreAccount(c) PROVE Asking(c)' /\ SafeRepeat(c)'
  BY <1>16, <1>0, <1>p, Going, Ending DEF StoreAccount, Asking, SafeRepeat, ControlFits,
       ControlTyped, PrivateTyped, Stay, private, history
<1>17. ASSUME RestoreEntry(c) PROVE Asking(c)' /\ SafeRepeat(c)'
  <2>1. at[c] \in 1..3 /\ pc[c] = "restore" /\ sent' = sent
    BY <1>17, <1>0 DEF RestoreEntry, ControlFits, history
  <2>2. /\ kind' = kind /\ pc'[c] \in {"restore", "done", "done"}
        /\ pc'[c] # "done" => UNCHANGED <<session, rejected>>
    BY <1>17, <1>0, <1>p, <2>1, GoingOnward, Ending DEF RestoreEntry, Stay, private
  <2> QED BY <2>1, <2>2 DEF Asking, SafeRepeat
<1>18. ASSUME Fail(c) PROVE Asking(c)' /\ SafeRepeat(c)'
  BY <1>18, <1>0, <1>p, Going, Ending DEF Fail, Asking, SafeRepeat, ControlFits,
       ControlTyped, PrivateTyped, Stay, private, history
<1>19. ASSUME Crash(c) PROVE Asking(c)' /\ SafeRepeat(c)'
  BY <1>19, <1>0, <1>p, Going, Ending DEF Crash, Forget, Asking, SafeRepeat, ControlFits,
       ControlTyped, PrivateTyped, Stay, private, history
<1> QED BY <1>1, <1>2, <1>3, <1>4, <1>5, <1>6, <1>7, <1>8, <1>9, <1>10, <1>11, <1>12, <1>13,
     <1>14, <1>15, <1>16, <1>17, <1>18, <1>19 DEF Step

Repeating == TokensKnown /\ \A c \in Commands : Asking(c) /\ SafeRepeat(c)

(* No command repeats a send, or anything with a token that was rejected.    *)
THEOREM SafeRepeats == Spec => []RepeatsAreSafe
<1>1. Init => Repeating
  <2> SUFFICES ASSUME Init PROVE Repeating
    OBVIOUS
  <2>1. TokensKnown
    <3>1. secrets.access = None \/ (secrets.access = 1 /\ Len(grants) = 1)
      BY NothingIsAnEntry DEF Init, SessionOf
    <3>2. \A c \in Commands : /\ session[c].access = None /\ before[c].access = None
                              /\ rejected[c] = None
      BY NothingIsAnEntry DEF Init
    <3> QED BY <3>1, <3>2 DEF TokensKnown, Known
  <2>2. \A c \in Commands : pc[c] = "idle" /\ sent[c] = <<>> /\ rejected[c] = None
    BY DEF Init
  <2> QED BY <2>1, <2>2 DEF Repeating, Asking, SafeRepeat
<1>2. ASSUME Typed, Typed', Repeating, [Next]_vars PROVE Repeating'
  <2>1. ASSUME NEW c \in Commands, Begin(c) \/ Step(c) \/ Fail(c) \/ Crash(c)
        PROVE  Repeating'
    <3>1. OthersStay(c) /\ TokenMoves(c)
      BY <1>2, <2>1, OthersStayAlways, TokensMoveSo
    <3>2. TokensKnown'
      BY <1>2, <3>1, TokensStayKnown DEF Repeating
    <3>3. Asking(c)' /\ SafeRepeat(c)'
      BY <1>2, <2>1, AskingStep DEF Repeating
    <3>4. ASSUME NEW d \in Commands \ {c} PROVE Asking(d)' /\ SafeRepeat(d)'
      BY <1>2, <3>1 DEF Repeating, OthersStay, Asking, SafeRepeat
    <3> QED BY <3>2, <3>3, <3>4 DEF Repeating
  <2>2. ASSUME UNCHANGED <<secrets, grants, control, private, sent>> PROVE Repeating'
    BY <1>2, <2>2 DEF Repeating, TokensKnown, Known, Asking, SafeRepeat, control, private
  <2> QED BY <1>2, <2>1, <2>2 DEF Next, Lapse, vars, history
<1>3. Repeating => RepeatsAreSafe
  BY DEF Repeating, SafeRepeat, RepeatsAreSafe
<1> QED BY <1>1, <1>2, <1>3, AlwaysTyped, PTL DEF Spec

-----------------------------------------------------------------------------
(* A command that began signed out is where it asks for the account, deletes *)
(* entries or logs in, and the rows that keep it there are still as it found *)
(* them.                                                                     *)
Quiet(c) ==
  /\ barred[c] = "out" => account = None
  /\ barred[c] = "rejected" => account # None /\ loginRequired
  /\ barred[c] # "no" =>
       /\ sent[c] = <<>>
       /\ pc[c] \in {"account", "flag", "erase", "exchange", "snapshot", "write", "store",
                     "restore", "commit", "done"}
       /\ pc[c] = "flag" => barred[c] = "rejected"
       /\ pc[c] = "write" => kind[c] = "login"

(* What a step may do to the rows and to the standing of the others. *)
RowsMove(c) ==
  \/ /\ account' = account /\ loginRequired' \in {loginRequired, TRUE}
     /\ \A d \in Commands \ {c} : barred'[d] = barred[d]
  \/ /\ account' = None
     /\ \A d \in Commands : barred'[d] = IF barred[d] = "rejected" THEN "no" ELSE barred[d]
  \/ \A d \in Commands : barred'[d] = "no"

LEMMA RowsMoveSo ==
  ASSUME Typed, NEW c \in Commands, Begin(c) \/ Step(c) \/ Fail(c) \/ Crash(c)
  PROVE  RowsMove(c)
<1>0. barred \in [Commands -> {"no", "rejected", "out"}]
  BY DEF Typed, TypeOK
<1>1. ASSUME Begin(c) PROVE RowsMove(c)
  BY <1>1, <1>0 DEF Begin, RowsMove, tables, history
<1>2. ASSUME ReadAccount(c) PROVE RowsMove(c)
  BY <1>2, <1>0 DEF ReadAccount, RowsMove, tables, history
<1>3. ASSUME ReadFlag(c) PROVE RowsMove(c)
  BY <1>3, <1>0 DEF ReadFlag, RowsMove, tables, history
<1>4. ASSUME ReadEntry(c) PROVE RowsMove(c)
  BY <1>4, <1>0 DEF ReadEntry, RowsMove, tables, history
<1>5. ASSUME Decide(c) PROVE RowsMove(c)
  BY <1>5, <1>0 DEF Decide, RowsMove, tables, history
<1>6. ASSUME Acquire(c) PROVE RowsMove(c)
  BY <1>6, <1>0 DEF Acquire, RowsMove, tables, history
<1>7. ASSUME Refresh(c) PROVE RowsMove(c)
  BY <1>7, <1>0 DEF Refresh, RowsMove, tables, history
<1>8. ASSUME WriteEntry(c) PROVE RowsMove(c)
  BY <1>8, <1>0 DEF WriteEntry, RowsMove, tables, history
<1>9. ASSUME WriteFails(c) PROVE RowsMove(c)
  BY <1>9, <1>0 DEF WriteFails, RowsMove, tables, history
<1>10. ASSUME Request(c) PROVE RowsMove(c)
  BY <1>10, <1>0 DEF Request, RowsMove, tables, history
<1>11. ASSUME Reject(c) PROVE RowsMove(c)
  BY <1>11, <1>0 DEF Reject, RowsMove, tables, history
<1>12. ASSUME EraseEntry(c) PROVE RowsMove(c)
  BY <1>12, <1>0 DEF EraseEntry, RowsMove, tables, history
<1>13. ASSUME CommitLogout(c) PROVE RowsMove(c)
  BY <1>13, <1>0 DEF CommitLogout, RowsMove, tables, history
<1>14. ASSUME Exchange(c) PROVE RowsMove(c)
  BY <1>14, <1>0 DEF Exchange, RowsMove, tables, history
<1>15. ASSUME Snapshot(c) PROVE RowsMove(c)
  BY <1>15, <1>0 DEF Snapshot, RowsMove, tables, history
<1>16. ASSUME StoreAccount(c) PROVE RowsMove(c)
  BY <1>16, <1>0 DEF StoreAccount, RowsMove, tables, history
<1>17. ASSUME RestoreEntry(c) PROVE RowsMove(c)
  BY <1>17, <1>0 DEF RestoreEntry, RowsMove, tables, history
<1>18. ASSUME Fail(c) PROVE RowsMove(c)
  BY <1>18, <1>0 DEF Fail, RowsMove, tables, history
<1>19. ASSUME Crash(c) PROVE RowsMove(c)
  BY <1>19, <1>0 DEF Crash, RowsMove, tables, history
<1> QED BY <1>1, <1>2, <1>3, <1>4, <1>5, <1>6, <1>7, <1>8, <1>9, <1>10, <1>11, <1>12, <1>13,
     <1>14, <1>15, <1>16, <1>17, <1>18, <1>19 DEF Step

LEMMA QuietStep ==
  ASSUME Typed, NEW c \in Commands, Quiet(c), Begin(c) \/ Step(c) \/ Fail(c) \/ Crash(c)
  PROVE  Quiet(c)'
<1>0. /\ TypeOK /\ \A d \in Commands : ControlFits(d)
      /\ ControlTyped /\ PrivateTyped /\ WorldTyped
  BY TypedInParts DEF Typed
<1>p. {"idle", "account", "flag", "entries", "decide", "lease", "refresh", "write",
       "request", "reject", "erase", "exchange", "snapshot", "store", "restore",
       "commit", "done"} \subseteq Pcs
  BY DEF Pcs
<1>1. ASSUME Begin(c) PROVE Quiet(c)'
  BY <1>1, <1>0, <1>p, Going, Ending DEF Begin, Standing, Quiet, ControlFits, ControlTyped,
       WorldTyped, Stay, tables, history
<1>2. ASSUME ReadAccount(c) PROVE Quiet(c)'
  BY <1>2, <1>0, <1>p, Going, Ending DEF ReadAccount, Quiet, ControlFits, ControlTyped,
       WorldTyped, Stay, tables, history
<1>3. ASSUME ReadFlag(c) PROVE Quiet(c)'
  BY <1>3, <1>0, <1>p, Going, Ending DEF ReadFlag, Quiet, ControlFits, ControlTyped,
       WorldTyped, Stay, tables, history
<1>4. ASSUME ReadEntry(c) PROVE Quiet(c)'
  <2>1. pc[c] = "entries" /\ barred' = barred
    BY <1>4 DEF ReadEntry, history
  <2> QED BY <2>1 DEF Quiet
<1>5. ASSUME Decide(c) PROVE Quiet(c)'
  <2>1. pc[c] = "decide" /\ barred' = barred
    BY <1>5 DEF Decide, history
  <2> QED BY <2>1 DEF Quiet
<1>6. ASSUME Acquire(c) PROVE Quiet(c)'
  <2>1. pc[c] = "lease" /\ barred' = barred
    BY <1>6 DEF Acquire, history
  <2> QED BY <2>1 DEF Quiet
<1>7. ASSUME Refresh(c) PROVE Quiet(c)'
  <2>1. pc[c] = "refresh" /\ barred' = barred
    BY <1>7 DEF Refresh, history
  <2> QED BY <2>1 DEF Quiet
<1>8. ASSUME WriteEntry(c) PROVE Quiet(c)'
  <2>1. at[c] \in 1..3 /\ pc[c] = "write" /\ UNCHANGED <<sent, tables, barred>>
    BY <1>8, <1>0 DEF WriteEntry, ControlFits, history
  <2>2. kind' = kind /\ (kind[c] = "login" => pc'[c] \in {"write", "store"})
    BY <1>8, <1>0, <1>p, <2>1, Going, GoingOnward DEF WriteEntry
  <2> QED BY <2>1, <2>2 DEF Quiet, tables
<1>9. ASSUME WriteFails(c) PROVE Quiet(c)'
  <2>1. pc[c] = "write" /\ UNCHANGED <<sent, tables, barred>>
    BY <1>9 DEF WriteFails
  <2>2. kind' = kind /\ pc'[c] \in {"restore", "done"}
    BY <1>9, <1>0, <1>p, Going, Ending DEF WriteFails
  <2> QED BY <2>1, <2>2 DEF Quiet, tables
<1>10. ASSUME Request(c) PROVE Quiet(c)'
  <2>1. pc[c] = "request" /\ barred' = barred
    BY <1>10 DEF Request, history
  <2> QED BY <2>1 DEF Quiet
<1>11. ASSUME Reject(c) PROVE Quiet(c)'
  <2>1. pc[c] = "reject" /\ barred' = barred
    BY <1>11 DEF Reject, history
  <2> QED BY <2>1 DEF Quiet
<1>12. ASSUME EraseEntry(c) PROVE Quiet(c)'
  <2>1. at[c] \in 1..3 /\ pc[c] = "erase" /\ UNCHANGED <<sent, tables, barred>>
    BY <1>12, <1>0 DEF EraseEntry, ControlFits, history
  <2>2. kind' = kind /\ pc'[c] \in {"erase", "commit", "done"}
    BY <1>12, <1>0, <1>p, <2>1, GoingOnward, Ending DEF EraseEntry
  <2> QED BY <1>0, <2>1, <2>2 DEF Quiet, ControlFits, tables
<1>13. ASSUME CommitLogout(c) PROVE Quiet(c)'
  BY <1>13, <1>0, <1>p, Going, Ending DEF CommitLogout, Quiet, ControlFits, ControlTyped,
       WorldTyped, Stay, tables, history
<1>14. ASSUME Exchange(c) PROVE Quiet(c)'
  <2>1. pc[c] = "exchange" /\ pc'[c] = "snapshot" /\ UNCHANGED <<kind, sent, tables, barred>>
    BY <1>14, <1>0, <1>p, Going DEF Exchange, history
  <2> QED BY <2>1 DEF Quiet, tables
<1>15. ASSUME Snapshot(c) PROVE Quiet(c)'
  <2>1. at[c] \in 1..3 /\ pc[c] = "snapshot" /\ UNCHANGED <<sent, tables, barred>>
    BY <1>15, <1>0 DEF Snapshot, ControlFits, history
  <2>2. kind' = kind /\ pc'[c] \in {"snapshot", "write", "done"}
    BY <1>15, <1>0, <1>p, <2>1, GoingOnward, Ending DEF Snapshot
  <2> QED BY <1>0, <2>1, <2>2 DEF Quiet, ControlFits, tables
<1>16. ASSUME StoreAccount(c) PROVE Quiet(c)'
  <2>1. CASE barred' = [d \in Commands |-> "no"]
    BY <2>1 DEF Quiet
  <2>2. CASE Goto(c, "restore") /\ UNCHANGED <<tables, barred>>
    <3>1. pc[c] = "store" /\ pc'[c] = "restore" /\ UNCHANGED <<kind, sent>>
      BY <1>16, <2>2, <1>0, <1>p, Going DEF StoreAccount
    <3> QED BY <2>2, <3>1 DEF Quiet, tables
  <2> QED BY <1>16, <2>1, <2>2 DEF StoreAccount
<1>17. ASSUME RestoreEntry(c) PROVE Quiet(c)'
  <2>1. at[c] \in 1..3 /\ pc[c] = "restore" /\ UNCHANGED <<sent, tables, barred>>
    BY <1>17, <1>0 DEF RestoreEntry, ControlFits, history
  <2>2. kind' = kind /\ pc'[c] \in {"restore", "done", "done"}
    BY <1>17, <1>0, <1>p, <2>1, GoingOnward, Ending DEF RestoreEntry
  <2> QED BY <1>0, <2>1, <2>2 DEF Quiet, ControlFits, tables
<1>18. ASSUME Fail(c) PROVE Quiet(c)'
  BY <1>18, <1>0, <1>p, Going, Ending DEF Fail, Quiet, ControlFits, ControlTyped, WorldTyped,
       Stay, tables, history
<1>19. ASSUME Crash(c) PROVE Quiet(c)'
  BY <1>19, <1>0, <1>p, Going, Ending DEF Crash, Quiet, ControlFits, ControlTyped,
       WorldTyped, Stay, tables, history
<1> QED BY <1>1, <1>2, <1>3, <1>4, <1>5, <1>6, <1>7, <1>8, <1>9, <1>10, <1>11, <1>12, <1>13,
     <1>14, <1>15, <1>16, <1>17, <1>18, <1>19 DEF Step

AllQuiet == \A c \in Commands : Quiet(c)

(* Who begins signed out sends nothing, whatever logouts, rejections and     *)
(* refreshes happen meanwhile, until somebody has logged in.                 *)
THEOREM SignedOutSilent == Spec => []SignedOutIsSilent
<1>1. Init => AllQuiet
  BY DEF Init, AllQuiet, Quiet
<1>2. ASSUME Typed, AllQuiet, [Next]_vars PROVE AllQuiet'
  <2>1. ASSUME NEW c \in Commands, Begin(c) \/ Step(c) \/ Fail(c) \/ Crash(c)
        PROVE  AllQuiet'
    <3>1. OthersStay(c) /\ RowsMove(c) /\ Quiet(c)'
      BY <1>2, <2>1, OthersStayAlways, RowsMoveSo, QuietStep DEF AllQuiet
    <3>2. ASSUME NEW d \in Commands \ {c} PROVE Quiet(d)'
      <4>1. /\ Quiet(d) /\ kind'[d] = kind[d] /\ pc'[d] = pc[d] /\ sent'[d] = sent[d]
            /\ loginRequired \in BOOLEAN /\ barred[d] \in {"no", "rejected", "out"}
        BY <1>2, <3>1 DEF AllQuiet, OthersStay, Typed, TypeOK
      <4> QED BY <3>1, <4>1 DEF RowsMove, Quiet
    <3> QED BY <3>1, <3>2 DEF AllQuiet
  <2>2. ASSUME UNCHANGED <<tables, control, sent, barred>> PROVE AllQuiet'
    BY <1>2, <2>2 DEF AllQuiet, Quiet, tables, control
  <2> QED BY <1>2, <2>1, <2>2 DEF Next, Lapse, vars, history
<1>3. AllQuiet => SignedOutIsSilent
  BY DEF AllQuiet, Quiet, SignedOutIsSilent
<1> QED BY <1>1, <1>2, <1>3, AlwaysTyped, PTL DEF Spec

-----------------------------------------------------------------------------
(* What a step does to the refresh tokens.  A command that holds the lease   *)
(* has the token of the keyring in hand from when it reads it until it       *)
(* replaces it.                                                              *)
HasRead(c) == pc[c] \in {"decide", "refresh"} \/ (pc[c] = "entries" /\ at[c] >= 2)
Replacing(c) == pc[c] = "write" /\ at[c] = 1
InHand(c) == c \in locked /\ (HasRead(c) \/ Replacing(c))
Writes(c) == pc[c] = "write" /\ kind[c] # "login"
LogsIn(c) == kind[c] = "login" /\ (pc[c] = "snapshot" \/ Replacing(c))

Rests(c) ==
  /\ grants' = grants
  /\ secrets'.access \in {secrets.access, None} /\ secrets'.refresh \in {secrets.refresh, None}
  /\ session'[c].refresh \in {session[c].refresh, None}
  /\ pc'[c] \notin {"snapshot", "write"}
  /\ InHand(c)' => c \in locked /\ HasRead(c) /\ session'[c].refresh = session[c].refresh
  /\ Replacing(c) => mishaps' # {}
Reads(c) ==
  /\ pc[c] = "entries" /\ pc'[c] = "entries" /\ session'[c].refresh = secrets.refresh
  /\ UNCHANGED <<secrets, grants, locked>>
Refreshes(c) ==
  /\ pc[c] = "refresh" /\ pc'[c] = "write" /\ at'[c] = 1
  /\ \E rotates \in BOOLEAN :
       /\ grants' = Append(grants, [from |-> session[c].refresh, rotates |-> rotates])
       /\ session'[c].access = Len(grants) + 1
       /\ session'[c].refresh = IF rotates THEN Len(grants) + 1 ELSE session[c].refresh
  /\ UNCHANGED <<secrets, locked, kind>>
Loses(c) ==
  /\ pc[c] = "refresh" /\ pc'[c] = "done" /\ session'[c].refresh = None
  /\ \E rotates \in BOOLEAN :
       grants' = Append(grants, [from |-> session[c].refresh, rotates |-> rotates])
  /\ "loss" \in mishaps' /\ UNCHANGED secrets
Exchanges(c) ==
  /\ pc[c] = "exchange" /\ pc'[c] = "snapshot"
  /\ grants' = Append(grants, [from |-> None, rotates |-> TRUE])
  /\ session'[c].access = Len(grants) + 1 /\ session'[c].refresh = Len(grants) + 1
  /\ UNCHANGED <<secrets, locked, kind>>
Remembers(c) ==
  /\ pc[c] = "snapshot" /\ pc'[c] \in {"snapshot", "write"}
  /\ UNCHANGED <<secrets, grants, session, locked, kind>>
WritesRefresh(c) ==
  /\ Replacing(c) /\ pc'[c] = "write" /\ at'[c] = 2
  /\ secrets'.refresh = session[c].refresh /\ secrets'.access = secrets.access
  /\ UNCHANGED <<grants, session, locked, kind>>
WritesAccess(c) ==
  /\ pc[c] = "write" /\ at[c] = 2 /\ pc'[c] = "write" /\ at'[c] = 3
  /\ secrets'.access = session[c].access /\ secrets'.refresh = secrets.refresh
  /\ UNCHANGED <<grants, session, locked, kind>>
FailsToWrite(c) ==
  /\ Writes(c) /\ pc'[c] = "done" /\ session'[c].refresh = None
  /\ \/ secrets'.access = secrets.access
     \/ at[c] = 2 /\ secrets'.access = session[c].access
  /\ \/ secrets'.refresh = secrets.refresh
     \/ at[c] = 1 /\ secrets'.refresh = session[c].refresh
  /\ "loss" \in mishaps' /\ UNCHANGED grants

Rotates(c) ==
  \/ Rests(c) \/ Reads(c) \/ Refreshes(c) \/ Loses(c) \/ Exchanges(c) \/ Remembers(c)
  \/ WritesRefresh(c) \/ WritesAccess(c) \/ FailsToWrite(c)
  \/ "restore" \in mishaps'

LEMMA MishapsStay ==
  ASSUME NEW c \in Commands, Begin(c) \/ Step(c) \/ Fail(c) \/ Crash(c)
  PROVE  mishaps \subseteq mishaps'
BY DEF Begin, Step, Fail, Crash, ReadAccount, ReadFlag, ReadEntry, Decide, Acquire, Refresh,
   WriteEntry, WriteFails, Request, Reject, EraseEntry, CommitLogout, Exchange, Snapshot,
   StoreAccount, RestoreEntry, history

(* Where logins and holders of the lease are. *)
Placed(c) ==
  /\ kind[c] = "login" => pc[c] \in {"exchange", "snapshot", "write", "store", "restore", "done"}
  /\ pc[c] \in {"exchange", "snapshot", "store", "restore"} => kind[c] = "login"
  /\ pc[c] = "refresh" \/ Writes(c) => c \in locked
  /\ pc[c] = "restore" => "restore" \in mishaps
  /\ pc[c] = "idle" => kind[c] = None

(* A command that ends, or goes elsewhere, with what it had or less. *)
LEMMA Resting ==
  ASSUME Typed, NEW c \in Commands, grants' = grants,
         secrets'.access \in {secrets.access, None}, secrets'.refresh \in {secrets.refresh, None},
         \/ End(c)
         \/ /\ UNCHANGED session \/ session' = [session EXCEPT ![c] = NoEntries]
            /\ pc'[c] \notin {"snapshot", "write", "entries", "decide", "refresh"},
         Replacing(c) => mishaps' # {}
  PROVE  Rests(c)
<1>1. TypeOK /\ session \in [Commands -> Entries] BY DEF Typed, TypeOK
<1>2. NoEntries.refresh = None BY DEF NoEntries
<1>3. CASE End(c)
  <2>1. /\ pc'[c] = "done" /\ kind' = kind /\ session' = [session EXCEPT ![c] = NoEntries]
    BY <1>1, <1>3, Ending
  <2>2. session'[c].refresh = None BY <1>1, <1>2, <2>1
  <2>3. ~ InHand(c)' BY <2>1 DEF InHand, HasRead, Replacing
  <2>4. QED BY <2>1, <2>2, <2>3 DEF Rests
<1>4. CASE /\ UNCHANGED session \/ session' = [session EXCEPT ![c] = NoEntries]
           /\ pc'[c] \notin {"snapshot", "write", "entries", "decide", "refresh"}
  <2>1. session'[c].refresh \in {session[c].refresh, None} BY <1>1, <1>2, <1>4
  <2>2. ~ InHand(c)' BY <1>4 DEF InHand, HasRead, Replacing
  <2>3. QED BY <1>4, <2>1, <2>2 DEF Rests
<1>5. QED BY <1>3, <1>4

LEMMA RotatesSo ==
  ASSUME Typed, NEW c \in Commands, Placed(c), Begin(c) \/ Step(c) \/ Fail(c) \/ Crash(c)
  PROVE  Rotates(c)
<1>0. /\ TypeOK /\ ControlFits(c) /\ session \in [Commands -> Entries] /\ session[c] \in Entries
      /\ secrets \in Entries /\ pc \in [Commands -> Pcs] /\ at \in [Commands -> Nat]
      /\ kind \in [Commands -> Kinds \cup {None}]
  BY DEF Typed, TypeOK
<1>p. {"idle", "account", "flag", "entries", "decide", "lease", "refresh", "write",
       "request", "reject", "erase", "exchange", "snapshot", "store", "restore",
       "commit", "done"} \subseteq Pcs
  BY DEF Pcs
<1>e. ASSUME NEW i \in 1..3
      PROVE  /\ [secrets EXCEPT ![NameOrder[i]] = None].access \in {secrets.access, None}
             /\ [secrets EXCEPT ![NameOrder[i]] = None].refresh \in {secrets.refresh, None}
  <2>1. i = 1 \/ i = 2 \/ i = 3 OBVIOUS
  <2>2. NameOrder[1] = "access" /\ NameOrder[2] = "refresh" /\ NameOrder[3] = "email"
    BY DEF NameOrder
  <2>3. QED BY <1>0, <2>1, <2>2 DEF Entries
<1>w. ASSUME NEW i \in 1..3, NEW s, s = [secrets EXCEPT ![WriteOrder[i]] = session[c][WriteOrder[i]]]
      PROVE  /\ i = 1 => s.refresh = session[c].refresh /\ s.access = secrets.access
             /\ i = 2 => s.access = session[c].access /\ s.refresh = secrets.refresh
             /\ i = 3 => s.access = secrets.access /\ s.refresh = secrets.refresh
  <2>1. i = 1 \/ i = 2 \/ i = 3 OBVIOUS
  <2>2. WriteOrder[1] = "refresh" /\ WriteOrder[2] = "access" /\ WriteOrder[3] = "email"
    BY DEF WriteOrder
  <2>3. QED BY <1>0, <1>w, <2>1, <2>2 DEF Entries
<1>1. ASSUME Begin(c) PROVE Rests(c)
  <2>1. /\ pc[c] = "idle" /\ UNCHANGED <<secrets, grants, session>>
        /\ pc'[c] \in {"exchange", "erase", "account"}
    BY <1>0, <1>1 DEF Begin, Stay, private
  <2>2. QED BY <2>1, Resting DEF Replacing
<1>2. ASSUME ReadAccount(c) PROVE Rests(c)
  BY <1>0, <1>p, <1>2, Resting, Going DEF ReadAccount, Stay, private, Replacing
<1>3. ASSUME ReadFlag(c) PROVE Rests(c) \/ Rotates(c)
  <2>1. pc[c] = "flag" /\ UNCHANGED <<secrets, grants>> BY <1>3 DEF ReadFlag
  <2>2. CASE End(c) BY <2>1, <2>2, Resting DEF Replacing
  <2>3. CASE Goto(c, "entries") /\ Stay
    <3>1. pc'[c] = "entries" /\ at'[c] = 1 /\ kind' = kind /\ session' = session
      BY <1>0, <1>p, <2>3, Going DEF Stay, private
    <3>2. ~ InHand(c)' BY <3>1 DEF InHand, HasRead, Replacing
    <3>3. QED BY <2>1, <3>1, <3>2 DEF Rests, Replacing
  <2>4. QED BY <1>3, <2>2, <2>3 DEF ReadFlag
<1>4. ASSUME ReadEntry(c) PROVE Rests(c) \/ Reads(c)
  <2>1. pc[c] = "entries" /\ at[c] \in 1..3 /\ UNCHANGED <<secrets, grants>>
    BY <1>0, <1>4 DEF ReadEntry, ControlFits
  <2>2. CASE End(c) BY <2>1, <2>2, Resting DEF Replacing
  <2>3. CASE /\ session' = [session EXCEPT ![c][ReadOrder[at[c]]] = secrets[ReadOrder[at[c]]]]
             /\ Onward(c, "decide") /\ UNCHANGED locked
    <3>1. kind' = kind /\ (pc'[c] = "entries" \/ (at[c] = 3 /\ pc'[c] = "decide"))
      BY <1>0, <1>p, <2>1, <2>3, GoingOnward
    <3>2. CASE at[c] = 1
      <4>1. ReadOrder[at[c]] = "refresh" BY <3>2 DEF ReadOrder
      <4>2. session' = [session EXCEPT ![c].refresh = secrets.refresh] BY <2>3, <4>1
      <4>3. session'[c].refresh = secrets.refresh BY <1>0, <4>2 DEF Entries
      <4>4. QED BY <2>1, <2>3, <3>1, <3>2, <4>3 DEF Reads
    <3>3. CASE at[c] \in {2, 3}
      <4>1. ReadOrder[at[c]] \in {"access", "email"} BY <3>3 DEF ReadOrder
      <4>2. session'[c].refresh = session[c].refresh BY <1>0, <2>3, <4>1 DEF Entries
      <4>3. HasRead(c) BY <2>1, <3>3 DEF HasRead
      <4>4. InHand(c)' => c \in locked BY <2>3 DEF InHand
      <4>5. QED BY <2>1, <3>1, <4>2, <4>3, <4>4 DEF Rests, Replacing
    <3>4. QED BY <2>1, <3>2, <3>3
  <2>4. QED BY <1>4, <2>2, <2>3 DEF ReadEntry
<1>5. ASSUME Decide(c) PROVE Rests(c)
  <2>1. pc[c] = "decide" /\ UNCHANGED <<secrets, grants>> /\ ~ Replacing(c)
    BY <1>5 DEF Decide, Replacing
  <2>2. CASE Goto(c, "refresh") /\ Stay
    <3>1. pc'[c] = "refresh" /\ kind' = kind /\ UNCHANGED <<locked, session>>
      BY <1>0, <1>p, <2>2, Going DEF Stay, private
    <3>2. HasRead(c) BY <2>1 DEF HasRead
    <3>3. QED BY <2>1, <3>1, <3>2 DEF Rests, InHand
  <2>3. CASE Goto(c, "request") /\ UNCHANGED private
    BY <1>0, <1>p, <2>1, <2>3, Resting, Going DEF private
  <2>4. CASE Goto(c, "lease") /\ session' = [session EXCEPT ![c] = NoEntries]
    BY <1>0, <1>p, <2>1, <2>4, Resting, Going
  <2>5. QED BY <1>5, <2>2, <2>3, <2>4 DEF Decide
<1>6. ASSUME Acquire(c) PROVE Rests(c)
  <2>1. pc[c] = "lease" /\ UNCHANGED <<secrets, grants>> /\ ~ Replacing(c)
    BY <1>6 DEF Acquire, Replacing
  <2>2. CASE Take(c) BY <1>0, <1>p, <2>1, <2>2, Resting, Going DEF Take, private
  <2>3. CASE End(c) BY <2>1, <2>3, Resting
  <2>4. CASE UNCHANGED <<kind, pc>> /\ Stay BY <2>1, <2>4, Resting DEF Stay, private
  <2>5. QED BY <1>6, <2>2, <2>3, <2>4 DEF Acquire
<1>7. ASSUME Refresh(c) PROVE Rotates(c)
  <2> DEFINE n == Len(grants) + 1
             old == session[c]
  <2>1. pc[c] = "refresh" /\ UNCHANGED secrets /\ ~ Replacing(c) BY <1>7 DEF Refresh, Replacing
  <2>2. CASE Goto(c, "reject") /\ Stay /\ UNCHANGED grants
    <3>1. Rests(c) BY <1>0, <1>p, <2>1, <2>2, Resting, Going DEF Stay, private
    <3>2. QED BY <3>1 DEF Rotates
  <2>3. ASSUME NEW rotates \in BOOLEAN,
               grants' = Append(grants, [from |-> old.refresh, rotates |-> rotates]),
               session' = [session EXCEPT ![c] =
                             SessionOf(IF rotates THEN n ELSE old.refresh, n, old.email)],
               Goto(c, "write"), UNCHANGED locked
        PROVE  Rotates(c)
    <3>1. session'[c] = SessionOf(IF rotates THEN n ELSE old.refresh, n, old.email) BY <1>0, <2>3
    <3>2. session'[c].access = n /\ session'[c].refresh = IF rotates THEN n ELSE old.refresh
      BY <3>1 DEF SessionOf
    <3>3. pc'[c] = "write" /\ at'[c] = 1 /\ kind' = kind BY <1>0, <1>p, <2>3, Going
    <3>4. QED BY <2>1, <2>3, <3>2, <3>3 DEF Refreshes, Rotates
  <2>4. ASSUME NEW rotates \in BOOLEAN,
               grants' = Append(grants, [from |-> old.refresh, rotates |-> rotates]),
               End(c), "loss" \in mishaps'
        PROVE  Rotates(c)
    <3>1. pc'[c] = "done" /\ session' = [session EXCEPT ![c] = NoEntries] BY <1>0, <2>4, Ending
    <3>2. session'[c].refresh = None BY <1>0, <3>1 DEF NoEntries
    <3>3. QED BY <2>1, <2>4, <3>1, <3>2 DEF Loses, Rotates
  <2>5. QED BY <1>7, <2>2, <2>3, <2>4 DEF Refresh
<1>8. ASSUME WriteEntry(c) PROVE Rotates(c)
  <2>1. /\ pc[c] = "write" /\ at[c] \in 1..3 /\ grants' = grants /\ session' = session
        /\ secrets' = [secrets EXCEPT ![WriteOrder[at[c]]] = session[c][WriteOrder[at[c]]]]
    BY <1>0, <1>8 DEF WriteEntry, ControlFits, private
  <2>2. CASE at[c] < 3
    <3>1. Onward(c, "store") /\ UNCHANGED locked BY <1>8, <2>2 DEF WriteEntry
    <3>2. kind' = kind /\ pc'[c] = "write" /\ at'[c] = at[c] + 1
      BY <1>0, <2>1, <2>2, <3>1 DEF Onward
    <3>w. /\ at[c] = 1 => secrets'.refresh = session[c].refresh /\ secrets'.access = secrets.access
          /\ at[c] = 2 => secrets'.access = session[c].access /\ secrets'.refresh = secrets.refresh
      BY <1>w, <2>1
    <3>3. CASE at[c] = 1
      <4>1. at'[c] = 2 BY <3>2, <3>3
      <4>2. WritesRefresh(c) BY <2>1, <3>1, <3>2, <3>3, <3>w, <4>1 DEF WritesRefresh, Replacing
      <4>3. QED BY <4>2 DEF Rotates
    <3>4. CASE at[c] = 2
      <4>1. at'[c] = 3 BY <3>2, <3>4
      <4>2. WritesAccess(c) BY <2>1, <3>1, <3>2, <3>4, <3>w, <4>1 DEF WritesAccess
      <4>3. QED BY <4>2 DEF Rotates
    <3>5. QED BY <2>1, <2>2, <3>3, <3>4
  <2>3. CASE at[c] = 3
    <3>1. Goto(c, "store") \/ Goto(c, "request") BY <1>8, <2>3 DEF WriteEntry, Onward
    <3>2. kind' = kind /\ pc'[c] \in {"store", "request"} BY <1>0, <1>p, <3>1, Going
    <3>3. secrets'.access = secrets.access /\ secrets'.refresh = secrets.refresh
      BY <1>w, <2>1, <2>3
    <3>4. Rests(c) BY <2>1, <2>3, <3>2, <3>3, Resting DEF Replacing
    <3>5. QED BY <3>4 DEF Rotates
  <2>4. QED BY <2>1, <2>2, <2>3
<1>9. ASSUME WriteFails(c) PROVE Rotates(c)
  <2>1. /\ pc[c] = "write" /\ at[c] \in 1..3 /\ grants' = grants
        /\ \/ secrets' = secrets
           \/ secrets' = [secrets EXCEPT ![WriteOrder[at[c]]] = session[c][WriteOrder[at[c]]]]
    BY <1>0, <1>9 DEF WriteFails, ControlFits
  <2>2. CASE "restore" \in mishaps' BY <2>2 DEF Rotates
  <2>3. CASE kind[c] # "login" /\ End(c) /\ "loss" \in mishaps'
    <3>1. pc'[c] = "done" /\ session' = [session EXCEPT ![c] = NoEntries] BY <1>0, <2>3, Ending
    <3>2. session'[c].refresh = None BY <1>0, <3>1 DEF NoEntries
    <3>3. QED BY <1>w, <2>1, <2>3, <3>1, <3>2 DEF FailsToWrite, Writes, Rotates
  <2>4. QED BY <1>9, <2>2, <2>3 DEF WriteFails
<1>10. ASSUME Request(c) PROVE Rests(c)
  <2>1. pc[c] = "request" /\ UNCHANGED <<secrets, grants>> /\ ~ Replacing(c)
    BY <1>10 DEF Request, Replacing
  <2>2. CASE End(c) BY <2>1, <2>2, Resting
  <2>3. CASE Goto(c, "reject") /\ Stay BY <1>0, <1>p, <2>1, <2>3, Resting, Going DEF Stay, private
  <2>4. CASE Goto(c, "account") /\ session' = [session EXCEPT ![c] = NoEntries]
    BY <1>0, <1>p, <2>1, <2>4, Resting, Going
  <2>5. QED BY <1>10, <2>2, <2>3, <2>4 DEF Request
<1>11. ASSUME Reject(c) PROVE Rests(c)
  BY <1>0, <1>p, <1>11, Resting, Going DEF Reject, Replacing
<1>12. ASSUME EraseEntry(c) PROVE Rests(c)
  <2>1. /\ pc[c] = "erase" /\ at[c] \in 1..3 /\ grants' = grants /\ ~ Replacing(c)
        /\ secrets' \in {secrets, [secrets EXCEPT ![NameOrder[at[c]]] = None]}
    BY <1>0, <1>12 DEF EraseEntry, ControlFits, Replacing
  <2>2. secrets'.access \in {secrets.access, None} /\ secrets'.refresh \in {secrets.refresh, None}
    BY <1>e, <2>1
  <2>3. CASE End(c) BY <2>1, <2>2, <2>3, Resting
  <2>4. CASE Onward(c, "commit") /\ UNCHANGED session
    <3>1. kind' = kind /\ pc'[c] \in {"erase", "commit"} BY <1>0, <1>p, <2>1, <2>4, GoingOnward
    <3>2. QED BY <2>1, <2>2, <2>4, <3>1, Resting
  <2>5. QED BY <1>12, <2>3, <2>4 DEF EraseEntry
<1>13. ASSUME CommitLogout(c) PROVE Rests(c)
  BY <1>13, Resting DEF CommitLogout, Replacing
<1>14. ASSUME Exchange(c) PROVE Rotates(c)
  <2> DEFINE n == Len(grants) + 1
  <2>1. PICK a \in Accounts : session' = [session EXCEPT ![c] = SessionOf(n, n, a)]
    BY <1>14 DEF Exchange
  <2>2. session'[c].access = n /\ session'[c].refresh = n BY <1>0, <2>1 DEF SessionOf
  <2>3. pc'[c] = "snapshot" /\ kind' = kind BY <1>0, <1>p, <1>14, Going DEF Exchange
  <2>4. QED BY <1>14, <2>2, <2>3 DEF Exchange, Exchanges, Rotates
<1>15. ASSUME Snapshot(c) PROVE Rotates(c)
  <2>1. at[c] \in 1..3 /\ Onward(c, "write") BY <1>0, <1>15 DEF Snapshot, ControlFits
  <2>2. kind' = kind /\ pc'[c] \in {pc[c], "write"} BY <1>0, <1>p, <2>1, GoingOnward
  <2>3. QED BY <1>15, <2>2 DEF Snapshot, Remembers, Rotates
<1>16. ASSUME StoreAccount(c) PROVE Rests(c) \/ Rotates(c)
  <2>1. CASE "restore" \in mishaps' BY <2>1 DEF Rotates
  <2>2. CASE End(c) BY <1>16, <2>2, Resting DEF StoreAccount, Replacing
  <2>3. QED BY <1>16, <2>1, <2>2 DEF StoreAccount
<1>17. ASSUME RestoreEntry(c) PROVE Rotates(c)
  <2>1. "restore" \in mishaps' BY <1>17 DEF RestoreEntry, history, Placed
  <2>2. QED BY <2>1 DEF Rotates
<1>18. ASSUME Fail(c) PROVE Rests(c)
  BY <1>18, Resting DEF Fail, Replacing
<1>19. ASSUME Crash(c) PROVE Rests(c)
  <2>1. pc'[c] = "done" /\ kind' = kind BY <1>0, <1>p, <1>19, Going DEF Crash
  <2>2. QED BY <1>19, <2>1, Resting DEF Crash, Forget, Replacing
<1> QED BY <1>1, <1>2, <1>3, <1>4, <1>5, <1>6, <1>7, <1>8, <1>9, <1>10, <1>11, <1>12, <1>13,
     <1>14, <1>15, <1>16, <1>17, <1>18, <1>19 DEF Step, Rotates

-----------------------------------------------------------------------------
LEMMA PlacedStep ==
  ASSUME Typed, NEW c \in Commands, Placed(c), LeaseMoves(c), mishaps \subseteq mishaps',
         Begin(c) \/ Step(c) \/ Fail(c) \/ Crash(c)
  PROVE  Placed(c)'
<1>0. /\ TypeOK /\ ControlFits(c) /\ pc \in [Commands -> Pcs] /\ at \in [Commands -> Nat]
      /\ kind \in [Commands -> Kinds \cup {None}]
  BY DEF Typed, TypeOK
<1>p. {"idle", "account", "flag", "entries", "decide", "lease", "refresh", "write",
       "request", "reject", "erase", "exchange", "snapshot", "store", "restore",
       "commit", "done"} \subseteq Pcs
  BY DEF Pcs
(* A command that is not a login, where none of the clauses bites. *)
<1>a. ASSUME kind'[c] = kind[c], kind[c] # "login",
             pc'[c] \notin {"refresh", "write", "idle", "exchange", "snapshot", "store", "restore"}
      PROVE  Placed(c)'
  BY <1>a DEF Placed, Writes
<1>d. ASSUME kind'[c] = kind[c], pc'[c] = "done" PROVE Placed(c)'
  BY <1>d DEF Placed, Writes
<1>1. ASSUME Begin(c) PROVE Placed(c)'
  <2>1. PICK k \in Kinds :
          /\ kind' = [kind EXCEPT ![c] = k]
          /\ pc' = [pc EXCEPT ![c] =
                      CASE k = "login" -> "exchange" [] k = "logout" -> "erase" [] OTHER -> "account"]
    BY <1>1 DEF Begin
  <2>2. kind'[c] = k /\ (k = "login" => pc'[c] = "exchange")
        /\ (k # "login" => pc'[c] \in {"erase", "account"})
    BY <1>0, <2>1
  <2> QED BY <2>2 DEF Placed, Writes
<1>2. ASSUME ReadAccount(c) PROVE Placed(c)'
  <2>1. pc[c] = "account" /\ kind' = kind /\ pc'[c] \in {"flag", "done"}
    BY <1>0, <1>p, <1>2, Going, Ending DEF ReadAccount
  <2> QED BY <1>a, <2>1 DEF Placed
<1>3. ASSUME ReadFlag(c) PROVE Placed(c)'
  <2>1. pc[c] = "flag" /\ kind' = kind /\ pc'[c] \in {"entries", "done"}
    BY <1>0, <1>p, <1>3, Going, Ending DEF ReadFlag
  <2> QED BY <1>a, <2>1 DEF Placed
<1>4. ASSUME ReadEntry(c) PROVE Placed(c)'
  <2>1. pc[c] = "entries" /\ at[c] \in 1..3 BY <1>0, <1>4 DEF ReadEntry, ControlFits
  <2>2. kind' = kind /\ pc'[c] \in {"entries", "decide", "done"}
    BY <1>0, <1>p, <1>4, <2>1, GoingOnward, Ending DEF ReadEntry
  <2> QED BY <1>a, <2>1, <2>2 DEF Placed
<1>5. ASSUME Decide(c) PROVE Placed(c)'
  <2>1. pc[c] = "decide" BY <1>5 DEF Decide
  <2>2. CASE Goto(c, "refresh") /\ Stay /\ c \in locked
    <3>1. pc'[c] = "refresh" /\ kind' = kind /\ locked' = locked
      BY <1>0, <1>p, <2>2, Going DEF Stay
    <3> QED BY <2>1, <2>2, <3>1 DEF Placed
  <2>3. CASE Goto(c, "request") \/ Goto(c, "lease")
    <3>1. kind' = kind /\ pc'[c] \in {"request", "lease"} BY <1>0, <1>p, <2>3, Going
    <3> QED BY <1>a, <2>1, <3>1 DEF Placed
  <2> QED BY <1>5, <2>2, <2>3 DEF Decide
<1>6. ASSUME Acquire(c) PROVE Placed(c)'
  <2>1. pc[c] = "lease" /\ kind' = kind /\ pc'[c] \in {"account", "done", "lease"}
    BY <1>0, <1>p, <1>6, Going, Ending DEF Acquire, Take
  <2> QED BY <1>a, <2>1 DEF Placed
<1>7. ASSUME Refresh(c) PROVE Placed(c)'
  <2>1. pc[c] = "refresh" BY <1>7 DEF Refresh
  <2>2. CASE Goto(c, "write") /\ UNCHANGED locked
    <3>1. pc'[c] = "write" /\ kind' = kind BY <1>0, <1>p, <2>2, Going
    <3> QED BY <2>1, <2>2, <3>1 DEF Placed
  <2>3. CASE End(c) \/ Goto(c, "reject")
    <3>1. kind' = kind /\ pc'[c] \in {"done", "reject"} BY <1>0, <1>p, <2>3, Going, Ending
    <3> QED BY <1>a, <2>1, <3>1 DEF Placed
  <2> QED BY <1>7, <2>2, <2>3 DEF Refresh
<1>8. ASSUME WriteEntry(c) PROVE Placed(c)'
  <2>1. pc[c] = "write" /\ at[c] \in 1..3 BY <1>0, <1>8 DEF WriteEntry, ControlFits
  <2>2. CASE Onward(c, "store") /\ UNCHANGED locked /\ (kind[c] = "login" \/ at[c] < 3)
    <3>1. kind' = kind /\ (pc'[c] = "write" \/ (at[c] = 3 /\ pc'[c] = "store"))
      BY <1>0, <1>p, <2>1, <2>2, GoingOnward
    <3> QED BY <2>1, <2>2, <3>1 DEF Placed, Writes
  <2>3. CASE Goto(c, "request") /\ kind[c] # "login"
    <3>1. kind' = kind /\ pc'[c] = "request" BY <1>0, <1>p, <2>3, Going
    <3> QED BY <1>a, <2>3, <3>1
  <2> QED BY <1>8, <2>2, <2>3 DEF WriteEntry
<1>9. ASSUME WriteFails(c) PROVE Placed(c)'
  <2>1. CASE kind[c] = "login" /\ Goto(c, "restore") /\ mishaps' = mishaps \cup {"restore"}
    <3>1. kind' = kind /\ pc'[c] = "restore" BY <1>0, <1>p, <2>1, Going
    <3> QED BY <2>1, <3>1 DEF Placed, Writes
  <2>2. CASE End(c)
    BY <1>0, <1>d, <2>2, Ending
  <2> QED BY <1>9, <2>1, <2>2 DEF WriteFails
<1>10. ASSUME Request(c) PROVE Placed(c)'
  <2>1. pc[c] = "request" /\ kind' = kind /\ pc'[c] \in {"done", "reject", "account"}
    BY <1>0, <1>p, <1>10, Going, Ending DEF Request
  <2> QED BY <1>a, <2>1 DEF Placed
<1>11. ASSUME Reject(c) PROVE Placed(c)'
  <2>1. pc[c] = "reject" /\ kind' = kind /\ pc'[c] = "erase"
    BY <1>0, <1>p, <1>11, Going DEF Reject
  <2> QED BY <1>a, <2>1 DEF Placed
<1>12. ASSUME EraseEntry(c) PROVE Placed(c)'
  <2>1. pc[c] = "erase" /\ at[c] \in 1..3 BY <1>0, <1>12 DEF EraseEntry, ControlFits
  <2>2. kind' = kind /\ pc'[c] \in {"erase", "commit", "done"}
    BY <1>0, <1>p, <1>12, <2>1, GoingOnward, Ending DEF EraseEntry
  <2> QED BY <1>a, <2>1, <2>2 DEF Placed
<1>13. ASSUME CommitLogout(c) PROVE Placed(c)'
  BY <1>0, <1>d, <1>13, Ending DEF CommitLogout
<1>14. ASSUME Exchange(c) PROVE Placed(c)'
  <2>1. pc[c] = "exchange" /\ kind' = kind /\ pc'[c] = "snapshot"
    BY <1>0, <1>p, <1>14, Going DEF Exchange
  <2> QED BY <2>1 DEF Placed, Writes
<1>15. ASSUME Snapshot(c) PROVE Placed(c)'
  <2>1. pc[c] = "snapshot" /\ at[c] \in 1..3 BY <1>0, <1>15 DEF Snapshot, ControlFits
  <2>2. kind' = kind /\ pc'[c] \in {"snapshot", "write"}
    BY <1>0, <1>p, <1>15, <2>1, GoingOnward DEF Snapshot
  <2> QED BY <2>1, <2>2 DEF Placed, Writes
<1>16. ASSUME StoreAccount(c) PROVE Placed(c)'
  <2>1. CASE pc[c] = "store" /\ Goto(c, "restore") /\ mishaps' = mishaps \cup {"restore"}
    <3>1. kind' = kind /\ pc'[c] = "restore" BY <1>0, <1>p, <2>1, Going
    <3> QED BY <2>1, <3>1 DEF Placed, Writes
  <2>2. CASE End(c)
    BY <1>0, <1>d, <2>2, Ending
  <2> QED BY <1>16, <2>1, <2>2 DEF StoreAccount
<1>17. ASSUME RestoreEntry(c) PROVE Placed(c)'
  <2>1. pc[c] = "restore" /\ at[c] \in 1..3 BY <1>0, <1>17 DEF RestoreEntry, ControlFits
  <2>2. kind' = kind /\ pc'[c] \in {"restore", "done"}
    BY <1>0, <1>p, <1>17, <2>1, GoingOnward, Ending DEF RestoreEntry
  <2> QED BY <2>1, <2>2 DEF Placed, Writes
<1>18. ASSUME Fail(c) PROVE Placed(c)'
  BY <1>0, <1>d, <1>18, Ending DEF Fail
<1>19. ASSUME Crash(c) PROVE Placed(c)'
  BY <1>0, <1>d, <1>p, <1>19, Going DEF Crash
<1> QED BY <1>1, <1>2, <1>3, <1>4, <1>5, <1>6, <1>7, <1>8, <1>9, <1>10, <1>11, <1>12, <1>13,
     <1>14, <1>15, <1>16, <1>17, <1>18, <1>19 DEF Step

Leases ==
  /\ RefresherHoldsLease /\ (lapsed # {} => "lapse" \in mishaps)
  /\ \A c \in Commands : Placed(c)

(* As long as no lease expired under its owner, one command holds it.        *)
LEMMA HoldsAlone ==
  ASSUME Leases, "lapse" \notin mishaps, NEW c \in Commands, NEW d \in Commands,
         c \in locked, d \in locked
  PROVE  c = d
BY DEF Leases, RefresherHoldsLease

LEMMA LeasesStep ==
  ASSUME Typed, Leases, NEW c \in Commands, Begin(c) \/ Step(c) \/ Fail(c) \/ Crash(c)
  PROVE  Leases'
<1>1. LeaseMoves(c) /\ OthersStay(c) /\ mishaps \subseteq mishaps'
  BY LeaseMovesSo, OthersStayAlways, MishapsStay
<1>2. RefresherHoldsLease'
  BY <1>1, SessionAssumption DEF Leases, LeaseMoves, RefresherHoldsLease, Released
<1>3. lapsed' # {} => "lapse" \in mishaps'
  BY <1>1 DEF Leases, LeaseMoves
<1>4. Placed(c)'
  BY <1>1, PlacedStep DEF Leases
<1>5. ASSUME NEW d \in Commands \ {c} PROVE Placed(d)'
  <2>1. Placed(d) /\ kind'[d] = kind[d] /\ pc'[d] = pc[d] BY <1>1 DEF Leases, OthersStay
  <2>2. d \in locked' <=> d \in locked BY <1>1 DEF LeaseMoves
  <2> QED BY <1>1, <2>1, <2>2 DEF Placed, Writes
<1> QED BY <1>2, <1>3, <1>4, <1>5 DEF Leases

-----------------------------------------------------------------------------
(* What the server makes of the tokens: which it knows, which are of a grant *)
(* that did not replace a refresh token, and which no grant replaced.        *)
Granted(G, t) == t # None => t <= Len(G)
Current(G, a, r) ==
  \A n \in DOMAIN G : a = n => ~ (r # None /\ G[n].rotates /\ G[n].from = r)
Unspent(G, r) == \A n \in DOMAIN G : ~ (r # None /\ G[n].rotates /\ G[n].from = r)
Unused(G, r) == \A n \in DOMAIN G : G[n].from # r
Original(G, a) == \A n \in DOMAIN G : a = n => G[n].from = None

LEMMA CurrentForLess ==
  ASSUME NEW G \in Seq(Grant), NEW a, NEW r, Current(G, a, r),
         NEW b \in {a, None}, NEW s \in {r, None}
  PROVE  Current(G, b, s)
BY SessionAssumption DEF Current

LEMMA CurrentByOrigin ==
  ASSUME NEW G \in Seq(Grant), NEW a, NEW r, Unused(G, r) \/ Original(G, a) \/ Unspent(G, r)
  PROVE  Current(G, a, r)
BY DEF Current, Unused, Original, Unspent

LEMMA LongerHistory ==
  ASSUME NEW G \in Seq(Grant), NEW g \in Grant
  PROVE  /\ Append(G, g) \in Seq(Grant) /\ Len(Append(G, g)) = Len(G) + 1 /\ Len(G) \in Nat
         /\ DOMAIN Append(G, g) = 1..(Len(G) + 1) /\ DOMAIN G = 1..Len(G)
         /\ Append(G, g)[Len(G) + 1] = g
         /\ \A n \in DOMAIN G : Append(G, g)[n] = G[n]
OBVIOUS

LEMMA Rewriting ==
  ASSUME NEW G \in Seq(Grant), NEW g \in Grant, NEW a, NEW r
  PROVE  LET H == Append(G, g) IN
         /\ a \in Nat \cup {None} /\ Granted(G, a) =>
              /\ Granted(H, a)
              /\ Current(G, a, r) => Current(H, a, r)
              /\ Original(G, a) => Original(H, a)
         /\ Unused(G, r) /\ g.from # r => Unused(H, r)
         /\ Unspent(G, r) /\ (g.from # r \/ ~ g.rotates \/ r = None) => Unspent(H, r)
         /\ a = Len(G) + 1 /\ (g.from # r \/ ~ g.rotates \/ r = None) => Current(H, a, r)
         /\ a = Len(G) + 1 /\ g.from = None => Original(H, a)
<1> DEFINE H == Append(G, g)
<1>0. /\ H \in Seq(Grant) /\ Len(H) = Len(G) + 1 /\ Len(G) \in Nat
      /\ DOMAIN H = 1..(Len(G) + 1) /\ DOMAIN G = 1..Len(G)
      /\ H[Len(G) + 1] = g /\ \A n \in DOMAIN G : H[n] = G[n]
  BY LongerHistory
<1> HIDE DEF H
<1>1. ASSUME a \in Nat \cup {None}, Granted(G, a)
      PROVE  /\ Granted(H, a)
             /\ Current(G, a, r) => Current(H, a, r)
             /\ Original(G, a) => Original(H, a)
  <2>1. a # Len(G) + 1 BY <1>0, <1>1, SessionAssumption DEF Granted
  <2>2. Granted(H, a) BY <1>0, <1>1 DEF Granted
  <2>3. ASSUME Current(G, a, r) PROVE Current(H, a, r) BY <1>0, <2>1, <2>3 DEF Current
  <2>4. ASSUME Original(G, a) PROVE Original(H, a) BY <1>0, <2>1, <2>4 DEF Original
  <2> QED BY <2>2, <2>3, <2>4
<1>2. Unused(G, r) /\ g.from # r => Unused(H, r)
  BY <1>0 DEF Unused
<1>3. Unspent(G, r) /\ (g.from # r \/ ~ g.rotates \/ r = None) => Unspent(H, r)
  BY <1>0 DEF Unspent
<1>4. a = Len(G) + 1 /\ (g.from # r \/ ~ g.rotates \/ r = None) => Current(H, a, r)
  BY <1>0 DEF Current
<1>5. a = Len(G) + 1 /\ g.from = None => Original(H, a)
  BY <1>0 DEF Original
<1> QED BY <1>1, <1>2, <1>3, <1>4, <1>5 DEF H

(* A number beyond the grants is a token that no grant came from. *)
LEMMA NewIsUnused ==
  ASSUME NEW G \in Seq(Grant), \A n \in DOMAIN G : Granted(G, G[n].from)
  PROVE  Unused(G, Len(G) + 1)
<1>1. ASSUME NEW n \in DOMAIN G PROVE G[n].from # Len(G) + 1
  <2>1. G[n] \in Grant /\ Len(G) \in Nat OBVIOUS
  <2>2. G[n].from \in Nat \cup {None} BY <2>1 DEF Grant, Tokens
  <2>3. Granted(G, G[n].from) OBVIOUS
  <2> QED BY <2>1, <2>2, <2>3, SessionAssumption DEF Granted
<1> QED BY <1>1 DEF Unused

RefreshKnown ==
  /\ Granted(grants, secrets.refresh)
  /\ \A c \in Commands : Granted(grants, session[c].refresh)
  /\ \A n \in DOMAIN grants : Granted(grants, grants[n].from)
KeyringCurrent == Current(grants, secrets.access, secrets.refresh)
ReadCurrent(c) == InHand(c) => Current(grants, secrets.access, session[c].refresh)
WritesCurrent(c) ==
  /\ Writes(c) /\ at[c] <= 2 => Current(grants, session[c].access, session[c].refresh)
  /\ Writes(c) /\ at[c] = 2 => Current(grants, session[c].access, secrets.refresh)
LoginIsNew(c) ==
  kind[c] = "login" /\ pc[c] \in {"snapshot", "write"} => Original(grants, session[c].access)
LoginIsPrivate(c) ==
  LogsIn(c) =>
    /\ session[c].refresh \notin {None, secrets.refresh}
    /\ \A d \in Commands \ {c} : session[d].refresh # session[c].refresh
    /\ Unused(grants, session[c].refresh)
(* The tokens of one command. *)
Ready(c) == ReadCurrent(c) /\ WritesCurrent(c) /\ LoginIsNew(c) /\ LoginIsPrivate(c)
Rotating == RefreshKnown /\ KeyringCurrent /\ \A c \in Commands : Ready(c)

(* Before and during a step of c in an undisturbed history. *)
Undisturbed(c) ==
  /\ Typed /\ Typed' /\ TokensKnown /\ Leases /\ Rotating
  /\ OthersStay(c) /\ LeaseMoves(c) /\ "restore" \notin mishaps' /\ "lapse" \notin mishaps'
  /\ mishaps \subseteq mishaps'

LEMMA TokenTypes ==
  ASSUME Typed
  PROVE  /\ grants \in Seq(Grant) /\ Len(grants) \in Nat
         /\ secrets.access \in Nat \cup {None} /\ secrets.refresh \in Nat \cup {None}
         /\ \A c \in Commands : /\ session[c].access \in Nat \cup {None}
                                /\ session[c].refresh \in Nat \cup {None}
         /\ \A n \in DOMAIN grants : grants[n] \in Grant /\ grants[n].from \in Nat \cup {None}
         /\ Tokens \subseteq Nat
<1>1. grants \in Seq(Grant) /\ secrets \in Entries /\ \A c \in Commands : session[c] \in Entries
  BY DEF Typed, TypeOK
<1>2. Tokens \subseteq Nat BY DEF Tokens
<1>3. \A n \in DOMAIN grants : grants[n] \in Grant BY <1>1
<1>4. \A n \in DOMAIN grants : grants[n].from \in Tokens \cup {None}
  BY <1>3 DEF Grant
<1>5. Len(grants) \in Nat BY <1>1
<1>6. /\ secrets.access \in Tokens \cup {None} /\ secrets.refresh \in Tokens \cup {None}
      /\ \A c \in Commands : /\ session[c].access \in Tokens \cup {None}
                             /\ session[c].refresh \in Tokens \cup {None}
  BY <1>1, FieldsOfEntries
<1> QED BY <1>1, <1>2, <1>3, <1>4, <1>5, <1>6

(* The others have what they had. *)
LEMMA OthersHold ==
  ASSUME NEW c \in Commands, OthersStay(c), LeaseMoves(c), NEW d \in Commands \ {c}
  PROVE  /\ session'[d] = session[d] /\ at'[d] = at[d] /\ pc'[d] = pc[d] /\ kind'[d] = kind[d]
         /\ (InHand(d)' <=> InHand(d)) /\ (Writes(d)' <=> Writes(d))
         /\ (LogsIn(d)' <=> LogsIn(d)) /\ (Replacing(d)' <=> Replacing(d))
<1>1. /\ session'[d] = session[d] /\ at'[d] = at[d] /\ pc'[d] = pc[d] /\ kind'[d] = kind[d]
      /\ (d \in locked' <=> d \in locked)
  BY DEF OthersStay, LeaseMoves
<1> QED BY <1>1 DEF InHand, HasRead, Replacing, Writes, LogsIn

(* Nothing is granted and the keyring keeps or loses what it has.            *)
LEMMA KeptByOthers ==
  ASSUME NEW c \in Commands, Undisturbed(c), grants' = grants,
         secrets'.access \in {secrets.access, None},
         secrets'.refresh \in {secrets.refresh, None},
         session'[c].refresh \in {session[c].refresh, secrets.refresh, None},
         NEW d \in Commands \ {c}
  PROVE  Ready(d)'
<1>1. /\ session'[d] = session[d] /\ at'[d] = at[d] /\ pc'[d] = pc[d] /\ kind'[d] = kind[d]
      /\ (InHand(d)' <=> InHand(d)) /\ (Writes(d)' <=> Writes(d)) /\ (LogsIn(d)' <=> LogsIn(d))
  BY OthersHold DEF Undisturbed
<1>2. Ready(d) /\ grants \in Seq(Grant)
  BY TokenTypes DEF Undisturbed, Rotating
<1>3. ReadCurrent(d)' BY <1>1, <1>2, CurrentForLess DEF Ready, ReadCurrent
<1>4. WritesCurrent(d)' BY <1>1, <1>2, CurrentForLess DEF Ready, WritesCurrent
<1>5. LoginIsNew(d)' BY <1>1, <1>2 DEF Ready, LoginIsNew
<1>6. LoginIsPrivate(d)'
  <2>1. \A e \in Commands \ {d} : e # c => session'[e] = session[e]
    BY OthersHold DEF Undisturbed
  <2> QED BY <1>1, <1>2, <2>1 DEF Ready, LoginIsPrivate
<1> QED BY <1>3, <1>4, <1>5, <1>6 DEF Ready

LEMMA RotatingRests ==
  ASSUME NEW c \in Commands, Undisturbed(c), Rests(c)
  PROVE  Rotating'
<1>1. grants \in Seq(Grant) /\ Rotating
  BY TokenTypes DEF Undisturbed
<1>2. \A d \in Commands \ {c} : Ready(d)'
  BY KeptByOthers DEF Rests
<1>3. RefreshKnown'
  <2>1. Granted(grants, None) BY DEF Granted
  <2>2. Granted(grants, secrets'.refresh) /\ Granted(grants, session'[c].refresh)
    BY <1>1, <2>1 DEF Rests, Rotating, RefreshKnown
  <2>3. \A d \in Commands \ {c} : session'[d] = session[d] BY OthersHold DEF Undisturbed
  <2> QED BY <1>1, <2>2, <2>3 DEF Rests, Rotating, RefreshKnown
<1>4. KeyringCurrent'
  BY <1>1, CurrentForLess DEF Rests, Rotating, KeyringCurrent
<1>5. ReadCurrent(c)'
  <2>1. ASSUME InHand(c)' PROVE Current(grants, secrets'.access, session'[c].refresh)
    <3>1. InHand(c) /\ session'[c].refresh = session[c].refresh
      BY <2>1 DEF Rests, InHand
    <3>2. Current(grants, secrets.access, session[c].refresh)
      BY <1>1, <3>1 DEF Rotating, Ready, ReadCurrent
    <3> QED BY <1>1, <3>1, <3>2, CurrentForLess DEF Rests
  <2> QED BY <2>1 DEF ReadCurrent, Rests
<1>6. WritesCurrent(c)' /\ LoginIsNew(c)' /\ LoginIsPrivate(c)'
  BY DEF Rests, WritesCurrent, LoginIsNew, LoginIsPrivate, Writes, LogsIn, Replacing
<1> QED BY <1>2, <1>3, <1>4, <1>5, <1>6 DEF Rotating, Ready

LEMMA RotatingReads ==
  ASSUME NEW c \in Commands, Undisturbed(c), Reads(c)
  PROVE  Rotating'
<1>1. grants \in Seq(Grant) /\ Rotating
  BY TokenTypes DEF Undisturbed
<1>2. \A d \in Commands \ {c} : Ready(d)'
  BY KeptByOthers DEF Reads
<1>3. \A d \in Commands \ {c} : session'[d] = session[d] BY OthersHold DEF Undisturbed
<1>4. RefreshKnown'
  BY <1>1, <1>3 DEF Reads, Rotating, RefreshKnown
<1>5. KeyringCurrent' /\ ReadCurrent(c)'
  BY <1>1 DEF Reads, Rotating, KeyringCurrent, ReadCurrent
<1>6. WritesCurrent(c)' /\ LoginIsNew(c)' /\ LoginIsPrivate(c)'
  BY DEF Reads, WritesCurrent, LoginIsNew, LoginIsPrivate, Writes, LogsIn, Replacing
<1> QED BY <1>2, <1>4, <1>5, <1>6 DEF Rotating, Ready

(* A grant g to c: what the others and the keyring have stays current.       *)
LEMMA GrantedToAnother ==
  ASSUME NEW c \in Commands, Undisturbed(c), UNCHANGED secrets, NEW g \in Grant,
         grants' = Append(grants, g), g.from \in {session[c].refresh, None},
         session'[c].refresh \in {session[c].refresh, Len(grants) + 1, None}
  PROVE  RefreshKnown' /\ KeyringCurrent' /\ \A d \in Commands \ {c} : Ready(d)'
<1>1. Rotating /\ Typed /\ TokensKnown
  BY DEF Undisturbed
<1>2. /\ Granted(grants, secrets.access)
      /\ \A d \in Commands : Granted(grants, session[d].access)
  BY <1>1 DEF TokensKnown, Known, Granted
<1>t. /\ grants \in Seq(Grant) /\ Len(grants) \in Nat
      /\ secrets.access \in Nat \cup {None} /\ secrets.refresh \in Nat \cup {None}
      /\ \A d \in Commands : /\ session[d].access \in Nat \cup {None}
                             /\ session[d].refresh \in Nat \cup {None}
      /\ \A n \in DOMAIN grants : grants[n] \in Grant /\ grants[n].from \in Nat \cup {None}
  BY <1>1, TokenTypes
<1>h. /\ grants' \in Seq(Grant) /\ Len(grants') = Len(grants) + 1
      /\ DOMAIN grants' = 1..(Len(grants) + 1) /\ DOMAIN grants = 1..Len(grants)
      /\ grants'[Len(grants) + 1] = g /\ \A n \in DOMAIN grants : grants'[n] = grants[n]
  BY <1>t, LongerHistory
<1>3. \A d \in Commands \ {c} : session'[d] = session[d] BY OthersHold DEF Undisturbed
<1>4. RefreshKnown'
  <2>1. ASSUME NEW t \in Nat \cup {None}, Granted(grants, t) PROVE Granted(grants', t)
    BY <1>h, <1>t, <2>1 DEF Granted
  <2>2. Granted(grants', secrets'.refresh) BY <1>1, <1>t, <2>1 DEF Rotating, RefreshKnown
  <2>3. Granted(grants', None) /\ Granted(grants', Len(grants) + 1) BY <1>h, <1>t DEF Granted
  <2>4. Granted(grants', session[c].refresh) BY <1>1, <1>t, <2>1 DEF Rotating, RefreshKnown
  <2>5. \A d \in Commands : Granted(grants', session'[d].refresh)
    BY <1>1, <1>3, <1>t, <2>1, <2>3, <2>4 DEF Rotating, RefreshKnown
  <2>6. ASSUME NEW n \in DOMAIN grants' PROVE Granted(grants', grants'[n].from)
    <3>1. CASE n \in DOMAIN grants BY <1>1, <1>h, <1>t, <2>1, <3>1 DEF Rotating, RefreshKnown
    <3>2. CASE n = Len(grants) + 1 BY <1>h, <2>3, <2>4, <3>2
    <3> QED BY <1>h, <1>t, <3>1, <3>2
  <2> QED BY <2>2, <2>5, <2>6 DEF RefreshKnown
<1>5. KeyringCurrent'
  BY <1>1, <1>2, <1>t, Rewriting DEF Rotating, KeyringCurrent
<1>6. ASSUME NEW d \in Commands \ {c} PROVE Ready(d)'
  <2>1. /\ session'[d] = session[d] /\ at'[d] = at[d] /\ pc'[d] = pc[d] /\ kind'[d] = kind[d]
        /\ (InHand(d)' <=> InHand(d)) /\ (Writes(d)' <=> Writes(d)) /\ (LogsIn(d)' <=> LogsIn(d))
    BY OthersHold DEF Undisturbed
  <2>2. Ready(d) BY <1>1 DEF Rotating
  <2>3. ReadCurrent(d)'
    <3>1. ASSUME Current(grants, secrets.access, session[d].refresh)
          PROVE  Current(grants', secrets.access, session[d].refresh)
      BY <1>2, <1>t, <3>1, Rewriting
    <3> QED BY <2>1, <2>2, <3>1 DEF Ready, ReadCurrent
  <2>4. WritesCurrent(d)'
    <3>1. ASSUME NEW r, Current(grants, session[d].access, r)
          PROVE  Current(grants', session[d].access, r)
      BY <1>2, <1>t, <3>1, Rewriting
    <3> QED BY <2>1, <2>2, <3>1 DEF Ready, WritesCurrent
  <2>5. LoginIsNew(d)'
    <3>1. ASSUME Original(grants, session[d].access)
          PROVE  Original(grants', session[d].access)
      BY <1>2, <1>t, <3>1, Rewriting
    <3> QED BY <2>1, <2>2, <3>1 DEF Ready, LoginIsNew
  <2>6. LoginIsPrivate(d)'
    <3>1. SUFFICES ASSUME LogsIn(d)
                   PROVE  /\ session[d].refresh \notin {None, secrets.refresh}
                          /\ \A e \in Commands \ {d} : session'[e].refresh # session[d].refresh
                          /\ Unused(grants', session[d].refresh)
      BY <2>1 DEF LoginIsPrivate
    <3>2. /\ session[d].refresh \notin {None, secrets.refresh}
          /\ \A e \in Commands \ {d} : session[e].refresh # session[d].refresh
          /\ Unused(grants, session[d].refresh)
      BY <2>2, <3>1 DEF Ready, LoginIsPrivate
    <3>3. session[d].refresh # Len(grants) + 1
      <4>1. Granted(grants, session[d].refresh) BY <1>1 DEF Rotating, RefreshKnown
      <4> QED BY <1>t, <4>1, SessionAssumption DEF Granted
    <3>4. Unused(grants', session[d].refresh)
      BY <1>t, <3>2, Rewriting
    <3>5. ASSUME NEW e \in Commands \ {d} PROVE session'[e].refresh # session[d].refresh
      <4>1. CASE e = c BY <3>2, <3>3, <4>1
      <4>2. CASE e # c BY <1>3, <3>2, <4>2
      <4> QED BY <4>1, <4>2
    <3> QED BY <3>2, <3>4, <3>5
  <2> QED BY <2>3, <2>4, <2>5, <2>6 DEF Ready
<1> QED BY <1>4, <1>5, <1>6

LEMMA GrantsAreTyped ==
  ASSUME Typed, NEW c \in Commands, NEW b \in BOOLEAN
  PROVE  /\ [from |-> session[c].refresh, rotates |-> b] \in Grant
         /\ [from |-> None, rotates |-> b] \in Grant
<1>1. session[c].refresh \in Tokens \cup {None}
  BY FieldsOfEntries DEF Typed, TypeOK
<1> QED BY <1>1 DEF Grant

LEMMA RotatingRefreshes ==
  ASSUME NEW c \in Commands, Undisturbed(c), Refreshes(c) \/ Loses(c)
  PROVE  Rotating'
<1> DEFINE f == session[c].refresh
           n == Len(grants) + 1
<1>0. Typed /\ TokensKnown /\ Rotating /\ Leases
  BY DEF Undisturbed
<1>1. PICK b \in BOOLEAN :
        /\ grants' = Append(grants, [from |-> f, rotates |-> b])
        /\ Refreshes(c) => /\ session'[c].access = n
                           /\ session'[c].refresh = IF b THEN n ELSE f
  BY DEF Refreshes, Loses
<1> DEFINE g == [from |-> f, rotates |-> b]
<1>2. g \in Grant /\ g.from = f /\ g.rotates = b BY <1>0, GrantsAreTyped
<1>t. grants \in Seq(Grant) /\ Len(grants) \in Nat /\ f \in Nat \cup {None}
      /\ secrets.access \in Nat \cup {None}
  BY <1>0, TokenTypes
<1>3. UNCHANGED secrets /\ session'[c].refresh \in {f, n, None}
  BY <1>1 DEF Refreshes, Loses
<1>4. RefreshKnown' /\ KeyringCurrent' /\ \A d \in Commands \ {c} : Ready(d)'
  BY <1>1, <1>2, <1>3, GrantedToAnother
<1>5. CASE Loses(c)
  <2>1. pc'[c] = "done" BY <1>5 DEF Loses
  <2>2. Ready(c)'
    BY <2>1 DEF Ready, ReadCurrent, WritesCurrent, LoginIsNew, LoginIsPrivate, InHand, HasRead,
         Replacing, Writes, LogsIn
  <2> QED BY <1>4, <2>2 DEF Rotating
<1>6. CASE Refreshes(c)
  <2>1. /\ pc[c] = "refresh" /\ pc'[c] = "write" /\ at'[c] = 1 /\ UNCHANGED <<secrets, locked, kind>>
    BY <1>6 DEF Refreshes
  <2>2. c \in locked /\ kind[c] # "login" BY <1>0, <2>1 DEF Leases, Placed
  <2>3. Granted(grants, secrets.access) /\ Granted(grants, f)
    BY <1>0 DEF TokensKnown, Known, Granted, Rotating, RefreshKnown
  <2>4. f # n BY <1>t, <2>3, SessionAssumption DEF Granted
  <2>5. Current(grants', n, session'[c].refresh)
    <3>1. g.from # session'[c].refresh \/ ~ g.rotates BY <1>1, <1>2, <1>6, <2>4
    <3> QED BY <1>1, <1>2, <1>t, <3>1, Rewriting
  <2>6. Current(grants', secrets.access, session'[c].refresh)
    <3>1. CASE b
      <4>1. session'[c].refresh = n BY <1>1, <1>6, <3>1
      <4>2. Unused(grants, n) BY <1>0, <1>t, NewIsUnused DEF Rotating, RefreshKnown
      <4>3. Unused(grants', n) BY <1>1, <1>2, <1>t, <2>4, <4>2, Rewriting
      <4>4. grants' \in Seq(Grant) BY <1>1, <1>2, <1>t, LongerHistory
      <4> QED BY <4>1, <4>3, <4>4, CurrentByOrigin
    <3>2. CASE ~ b
      <4>1. session'[c].refresh = f BY <1>1, <1>6, <3>2
      <4>2. Current(grants, secrets.access, f)
        BY <1>0, <2>1, <2>2 DEF Rotating, Ready, ReadCurrent, InHand, HasRead
      <4> QED BY <1>1, <1>2, <1>t, <2>3, <4>1, <4>2, Rewriting
    <3> QED BY <3>1, <3>2
  <2>7. ReadCurrent(c)' BY <2>1, <2>6 DEF ReadCurrent
  <2>8. WritesCurrent(c)' BY <1>1, <1>6, <2>1, <2>5 DEF WritesCurrent
  <2>9. LoginIsNew(c)' /\ LoginIsPrivate(c)' BY <2>1, <2>2 DEF LoginIsNew, LoginIsPrivate, LogsIn
  <2> QED BY <1>4, <2>7, <2>8, <2>9 DEF Rotating, Ready
<1> QED BY <1>5, <1>6

LEMMA RotatingExchanges ==
  ASSUME NEW c \in Commands, Undisturbed(c), Exchanges(c)
  PROVE  Rotating'
<1> DEFINE n == Len(grants) + 1
           g == [from |-> None, rotates |-> TRUE]
<1>0. Typed /\ Rotating
  BY DEF Undisturbed
<1>1. /\ grants' = Append(grants, g) /\ session'[c].access = n /\ session'[c].refresh = n
      /\ pc'[c] = "snapshot" /\ UNCHANGED secrets
  BY DEF Exchanges
<1>2. g \in Grant /\ g.from = None BY DEF Grant
<1>t. /\ grants \in Seq(Grant) /\ Len(grants) \in Nat
      /\ \A d \in Commands : session[d].refresh \in Nat \cup {None}
      /\ secrets.refresh \in Nat \cup {None}
  BY <1>0, TokenTypes
<1>3. RefreshKnown' /\ KeyringCurrent' /\ \A d \in Commands \ {c} : Ready(d)'
  BY <1>1, <1>2, GrantedToAnother
<1>4. ReadCurrent(c)' /\ WritesCurrent(c)'
  BY <1>1 DEF ReadCurrent, WritesCurrent, InHand, HasRead, Replacing, Writes
<1>5. LoginIsNew(c)'
  <2>1. Original(grants', n) BY <1>1, <1>2, <1>t, Rewriting
  <2> QED BY <1>1, <2>1 DEF LoginIsNew
<1>6. LoginIsPrivate(c)'
  <2>1. n # None BY <1>t, SessionAssumption
  <2>2. ASSUME NEW t \in Nat \cup {None}, Granted(grants, t) PROVE t # n
    BY <1>t, <2>1, <2>2 DEF Granted
  <2>3. secrets.refresh # n BY <1>0, <1>t, <2>2 DEF Rotating, RefreshKnown
  <2>4. \A d \in Commands \ {c} : session'[d].refresh # n
    <3>1. \A d \in Commands \ {c} : session'[d] = session[d] BY OthersHold DEF Undisturbed
    <3> QED BY <1>0, <1>t, <2>2, <3>1 DEF Rotating, RefreshKnown
  <2>5. Unused(grants', n)
    <3>1. Unused(grants, n) BY <1>0, <1>t, NewIsUnused DEF Rotating, RefreshKnown
    <3> QED BY <1>1, <1>2, <1>t, <2>1, <3>1, Rewriting
  <2> QED BY <1>1, <2>1, <2>3, <2>4, <2>5 DEF LoginIsPrivate
<1> QED BY <1>3, <1>4, <1>5, <1>6 DEF Rotating, Ready

LEMMA RotatingRemembers ==
  ASSUME NEW c \in Commands, Undisturbed(c), Remembers(c)
  PROVE  Rotating'
<1>0. Typed /\ Rotating /\ Leases /\ grants \in Seq(Grant)
  BY TokenTypes DEF Undisturbed
<1>1. /\ pc[c] = "snapshot" /\ pc'[c] \in {"snapshot", "write"}
      /\ UNCHANGED <<secrets, grants, session, locked, kind>>
  BY DEF Remembers
<1>2. kind[c] = "login" /\ kind'[c] = "login" BY <1>0, <1>1 DEF Leases, Placed
<1>3. \A d \in Commands \ {c} : Ready(d)'
  BY <1>1, KeptByOthers
<1>4. RefreshKnown' /\ KeyringCurrent'
  BY <1>0, <1>1 DEF Rotating, RefreshKnown, KeyringCurrent
<1>5. LogsIn(c) /\ LoginIsPrivate(c) /\ LoginIsNew(c)
  BY <1>0, <1>1, <1>2 DEF LogsIn, Rotating, Ready
<1>6. ReadCurrent(c)'
  <2>1. Current(grants, secrets.access, session[c].refresh)
    BY <1>0, <1>5, CurrentByOrigin DEF LoginIsPrivate
  <2> QED BY <1>1, <2>1 DEF ReadCurrent
<1>7. WritesCurrent(c)' BY <1>2 DEF WritesCurrent, Writes
<1>8. LoginIsNew(c)' BY <1>1, <1>2, <1>5 DEF LoginIsNew
<1>9. LoginIsPrivate(c)' BY <1>1, <1>5 DEF LoginIsPrivate
<1> QED BY <1>3, <1>4, <1>6, <1>7, <1>8, <1>9 DEF Rotating, Ready

LEMMA RotatingWritesRefresh ==
  ASSUME NEW c \in Commands, Undisturbed(c), WritesRefresh(c)
  PROVE  Rotating'
<1> DEFINE r == session[c].refresh
<1>0. Typed /\ Rotating /\ Leases /\ grants \in Seq(Grant) /\ "lapse" \notin mishaps
  BY TokenTypes DEF Undisturbed
<1>1. /\ pc[c] = "write" /\ at[c] = 1 /\ pc'[c] = "write" /\ at'[c] = 2 /\ Replacing(c)
      /\ secrets'.refresh = r /\ secrets'.access = secrets.access
      /\ UNCHANGED <<grants, session, locked, kind>>
  BY DEF WritesRefresh, Replacing
<1>2. Ready(c) BY <1>0 DEF Rotating
<1>3. Writes(c) => c \in locked /\ InHand(c)
  BY <1>0, <1>1 DEF Leases, Placed, InHand
<1>4. ~ Writes(c) => LogsIn(c) /\ Unused(grants, r)
  BY <1>1, <1>2 DEF Writes, LogsIn, Ready, LoginIsPrivate
<1>5. RefreshKnown'
  BY <1>0, <1>1 DEF Rotating, RefreshKnown
<1>6. KeyringCurrent'
  <2>1. CASE Writes(c) BY <1>1, <1>2, <1>3, <2>1 DEF Ready, ReadCurrent, KeyringCurrent
  <2>2. CASE ~ Writes(c) BY <1>0, <1>1, <1>4, <2>2, CurrentByOrigin DEF KeyringCurrent
  <2> QED BY <2>1, <2>2
<1>7. Ready(c)'
  <2>1. ReadCurrent(c)' BY <1>1 DEF ReadCurrent, InHand, HasRead, Replacing
  <2>2. WritesCurrent(c)'
    <3>1. Writes(c)' => Writes(c) BY <1>1 DEF Writes
    <3>2. Writes(c) => Current(grants, session[c].access, r)
      BY <1>1, <1>2 DEF Ready, WritesCurrent
    <3> QED BY <1>1, <3>1, <3>2 DEF WritesCurrent
  <2>3. LoginIsNew(c)' BY <1>1, <1>2 DEF Ready, LoginIsNew
  <2>4. LoginIsPrivate(c)' BY <1>1 DEF LoginIsPrivate, LogsIn, Replacing
  <2> QED BY <2>1, <2>2, <2>3, <2>4 DEF Ready
<1>8. ASSUME NEW d \in Commands \ {c} PROVE Ready(d)'
  <2>1. /\ session'[d] = session[d] /\ at'[d] = at[d] /\ pc'[d] = pc[d] /\ kind'[d] = kind[d]
        /\ (InHand(d)' <=> InHand(d)) /\ (Writes(d)' <=> Writes(d)) /\ (LogsIn(d)' <=> LogsIn(d))
    BY OthersHold DEF Undisturbed
  <2>2. Ready(d) BY <1>0 DEF Rotating
  <2>3. ReadCurrent(d)' BY <1>1, <2>1, <2>2 DEF Ready, ReadCurrent
  <2>4. WritesCurrent(d)'
    <3>1. ASSUME Writes(d) PROVE Current(grants, session[d].access, r)
      <4>1. ~ Writes(c) BY <1>0, <1>3, <3>1, HoldsAlone DEF Leases, Placed
      <4> QED BY <1>0, <1>4, <4>1, CurrentByOrigin
    <3> QED BY <1>1, <2>1, <2>2, <3>1 DEF Ready, WritesCurrent
  <2>5. LoginIsNew(d)' BY <1>1, <2>1, <2>2 DEF Ready, LoginIsNew
  <2>6. LoginIsPrivate(d)' BY <1>1, <2>1, <2>2 DEF Ready, LoginIsPrivate
  <2> QED BY <2>3, <2>4, <2>5, <2>6 DEF Ready
<1> QED BY <1>5, <1>6, <1>7, <1>8 DEF Rotating

LEMMA RotatingWritesAccess ==
  ASSUME NEW c \in Commands, Undisturbed(c), WritesAccess(c)
  PROVE  Rotating'
<1> DEFINE a == session[c].access
<1>0. Typed /\ Rotating /\ Leases /\ grants \in Seq(Grant) /\ "lapse" \notin mishaps
  BY TokenTypes DEF Undisturbed
<1>1. /\ pc[c] = "write" /\ at[c] = 2 /\ pc'[c] = "write" /\ at'[c] = 3
      /\ secrets'.access = a /\ secrets'.refresh = secrets.refresh
      /\ UNCHANGED <<grants, session, locked, kind>>
  BY DEF WritesAccess
<1>2. Ready(c) BY <1>0 DEF Rotating
<1>3. Writes(c) => c \in locked BY <1>0 DEF Leases, Placed
<1>4. ~ Writes(c) => Original(grants, a)
  BY <1>1, <1>2 DEF Writes, Ready, LoginIsNew
<1>5. RefreshKnown'
  BY <1>0, <1>1 DEF Rotating, RefreshKnown
<1>6. KeyringCurrent'
  <2>1. CASE Writes(c) BY <1>1, <1>2, <2>1 DEF Ready, WritesCurrent, KeyringCurrent
  <2>2. CASE ~ Writes(c) BY <1>0, <1>1, <1>4, <2>2, CurrentByOrigin DEF KeyringCurrent
  <2> QED BY <2>1, <2>2
<1>7. Ready(c)'
  <2>1. ReadCurrent(c)' BY <1>1 DEF ReadCurrent, InHand, HasRead, Replacing
  <2>2. WritesCurrent(c)' BY <1>1 DEF WritesCurrent
  <2>3. LoginIsNew(c)' BY <1>1, <1>2 DEF Ready, LoginIsNew
  <2>4. LoginIsPrivate(c)' BY <1>1 DEF LoginIsPrivate, LogsIn, Replacing
  <2> QED BY <2>1, <2>2, <2>3, <2>4 DEF Ready
<1>8. ASSUME NEW d \in Commands \ {c} PROVE Ready(d)'
  <2>1. /\ session'[d] = session[d] /\ at'[d] = at[d] /\ pc'[d] = pc[d] /\ kind'[d] = kind[d]
        /\ (InHand(d)' <=> InHand(d)) /\ (Writes(d)' <=> Writes(d)) /\ (LogsIn(d)' <=> LogsIn(d))
    BY OthersHold DEF Undisturbed
  <2>2. Ready(d) BY <1>0 DEF Rotating
  <2>3. ReadCurrent(d)'
    <3>1. ASSUME InHand(d) PROVE Current(grants, a, session[d].refresh)
      <4>1. ~ Writes(c) BY <1>0, <1>3, <3>1, HoldsAlone DEF InHand
      <4> QED BY <1>0, <1>4, <4>1, CurrentByOrigin
    <3> QED BY <1>1, <2>1, <3>1 DEF ReadCurrent
  <2>4. WritesCurrent(d)' BY <1>1, <2>1, <2>2 DEF Ready, WritesCurrent
  <2>5. LoginIsNew(d)' BY <1>1, <2>1, <2>2 DEF Ready, LoginIsNew
  <2>6. LoginIsPrivate(d)' BY <1>1, <2>1, <2>2 DEF Ready, LoginIsPrivate
  <2> QED BY <2>3, <2>4, <2>5, <2>6 DEF Ready
<1> QED BY <1>5, <1>6, <1>7, <1>8 DEF Rotating

LEMMA RotatingFailsToWrite ==
  ASSUME NEW c \in Commands, Undisturbed(c), FailsToWrite(c)
  PROVE  Rotating'
<1>0. Typed /\ Rotating /\ Leases /\ grants \in Seq(Grant) /\ "lapse" \notin mishaps
  BY TokenTypes DEF Undisturbed
<1>1. /\ Writes(c) /\ pc'[c] = "done" /\ session'[c].refresh = None /\ grants' = grants
      /\ \/ secrets'.access = secrets.access
         \/ at[c] = 2 /\ secrets'.access = session[c].access
      /\ \/ secrets'.refresh = secrets.refresh
         \/ at[c] = 1 /\ secrets'.refresh = session[c].refresh
  BY DEF FailsToWrite
<1>2. Ready(c) BY <1>0 DEF Rotating
<1>3. c \in locked BY <1>0, <1>1 DEF Leases, Placed
<1>4. RefreshKnown'
  <2>1. \A d \in Commands \ {c} : session'[d] = session[d] BY OthersHold DEF Undisturbed
  <2>2. Granted(grants, None) BY DEF Granted
  <2> QED BY <1>0, <1>1, <2>1, <2>2 DEF Rotating, RefreshKnown
<1>5. KeyringCurrent'
  <2>1. Current(grants, secrets.access, secrets.refresh) BY <1>0 DEF Rotating, KeyringCurrent
  <2>2. at[c] = 1 => Current(grants, secrets.access, session[c].refresh)
    BY <1>1, <1>2, <1>3 DEF Ready, ReadCurrent, InHand, Replacing, Writes
  <2>3. at[c] = 2 => Current(grants, session[c].access, secrets.refresh)
    BY <1>1, <1>2 DEF Ready, WritesCurrent
  <2> QED BY <1>1, <2>1, <2>2, <2>3 DEF KeyringCurrent
<1>6. Ready(c)'
  BY <1>1 DEF Ready, ReadCurrent, WritesCurrent, LoginIsNew, LoginIsPrivate, InHand, HasRead,
     Replacing, Writes, LogsIn
<1>7. ASSUME NEW d \in Commands \ {c} PROVE Ready(d)'
  <2>1. /\ session'[d] = session[d] /\ at'[d] = at[d] /\ pc'[d] = pc[d] /\ kind'[d] = kind[d]
        /\ (InHand(d)' <=> InHand(d)) /\ (Writes(d)' <=> Writes(d)) /\ (LogsIn(d)' <=> LogsIn(d))
    BY OthersHold DEF Undisturbed
  <2>2. Ready(d) BY <1>0 DEF Rotating
  <2>3. d \notin locked BY <1>0, <1>3, HoldsAlone
  <2>4. ReadCurrent(d)' BY <2>1, <2>3 DEF ReadCurrent, InHand
  <2>5. WritesCurrent(d)' BY <1>0, <2>1, <2>3 DEF WritesCurrent, Leases, Placed
  <2>6. LoginIsNew(d)' BY <1>1, <2>1, <2>2 DEF Ready, LoginIsNew
  <2>7. LoginIsPrivate(d)'
    <3>1. \A e \in Commands \ {d} : session'[e].refresh \in {session[e].refresh, None}
      BY <1>1, OthersHold DEF Undisturbed
    <3> QED BY <1>1, <2>1, <2>2, <3>1 DEF Ready, LoginIsPrivate
  <2> QED BY <2>4, <2>5, <2>6, <2>7 DEF Ready
<1> QED BY <1>4, <1>5, <1>6, <1>7 DEF Rotating

LEMMA RotatingStep ==
  ASSUME NEW c \in Commands, Undisturbed(c), Rotates(c)
  PROVE  Rotating'
BY RotatingRests, RotatingReads, RotatingRefreshes, RotatingExchanges, RotatingRemembers,
   RotatingWritesRefresh, RotatingWritesAccess, RotatingFailsToWrite DEF Rotates, Undisturbed

(* Unless a refresh is about to replace it, no grant replaced the refresh    *)
(* token of the keyring; nor the one that the holder of the lease has read.  *)
Unpresented ==
  Unspent(grants, secrets.refresh) \/ \E c \in Commands : Writes(c) /\ Replacing(c)
ReadUnspent(c) == InHand(c) => Unspent(grants, session[c].refresh)
Presenting == Unpresented /\ \A c \in Commands : ReadUnspent(c)

LEMMA UnspentByUnused ==
  ASSUME NEW G, NEW r, Unused(G, r) \/ r = None
  PROVE  Unspent(G, r)
BY DEF Unspent, Unused

LEMMA PresentingStep ==
  ASSUME NEW c \in Commands, Undisturbed(c), Presenting, Rotates(c), mishaps' = {}
  PROVE  Presenting'
<1>0. Typed /\ Rotating /\ Leases /\ grants \in Seq(Grant) /\ "lapse" \notin mishaps
  BY TokenTypes DEF Undisturbed
<1>o. ASSUME NEW d \in Commands \ {c}
      PROVE  /\ session'[d] = session[d]
             /\ (InHand(d)' <=> InHand(d)) /\ (Writes(d)' <=> Writes(d))
             /\ (Replacing(d)' <=> Replacing(d))
  BY OthersHold DEF Undisturbed
<1>k. ASSUME grants' = grants, ~ (Writes(c) /\ Replacing(c)),
             secrets'.refresh \in {secrets.refresh, None}
      PROVE  Unpresented'
  <2>1. CASE Unspent(grants, secrets.refresh)
    <3>1. Unspent(grants, None) BY UnspentByUnused
    <3> QED BY <1>k, <2>1, <3>1 DEF Unpresented
  <2>2. CASE \E d \in Commands : Writes(d) /\ Replacing(d)
    <3>1. PICK d \in Commands : Writes(d) /\ Replacing(d) BY <2>2
    <3>2. d # c BY <1>k, <3>1
    <3>3. Writes(d)' /\ Replacing(d)' BY <1>o, <3>1, <3>2
    <3> QED BY <3>3 DEF Unpresented
  <2> QED BY <2>1, <2>2 DEF Presenting, Unpresented
<1>u. ASSUME grants' = grants, NEW d \in Commands \ {c} PROVE ReadUnspent(d)'
  BY <1>o, <1>u DEF Presenting, ReadUnspent
<1>1. CASE Rests(c)
  <2>1. Unpresented' BY <1>k, <1>1 DEF Rests
  <2>2. ReadUnspent(c)' BY <1>1 DEF Rests, ReadUnspent, Presenting, InHand
  <2> QED BY <1>1, <1>u, <2>1, <2>2 DEF Rests, Presenting
<1>2. CASE Reads(c)
  <2>1. /\ pc[c] = "entries" /\ pc'[c] = "entries" /\ session'[c].refresh = secrets.refresh
        /\ UNCHANGED <<secrets, grants, locked>>
    BY <1>2 DEF Reads
  <2>2. Unpresented' BY <1>k, <2>1 DEF Writes
  <2>3. ReadUnspent(c)'
    <3>1. ASSUME c \in locked PROVE Unspent(grants, secrets.refresh)
      <4>1. ASSUME NEW d \in Commands PROVE ~ (Writes(d) /\ Replacing(d))
        <5>1. CASE d = c BY <2>1, <5>1 DEF Writes
        <5>2. CASE d # c BY <1>0, <3>1, <5>2, HoldsAlone DEF Leases, Placed
        <5> QED BY <5>1, <5>2
      <4> QED BY <4>1 DEF Presenting, Unpresented
    <3> QED BY <2>1, <3>1 DEF ReadUnspent, InHand
  <2> QED BY <1>u, <2>1, <2>2, <2>3 DEF Presenting
<1>3. CASE Refreshes(c)
  <2> DEFINE f == session[c].refresh
             n == Len(grants) + 1
  <2>1. /\ pc[c] = "refresh" /\ pc'[c] = "write" /\ at'[c] = 1 /\ UNCHANGED <<secrets, locked, kind>>
    BY <1>3 DEF Refreshes
  <2>2. c \in locked /\ kind[c] # "login" BY <1>0, <2>1 DEF Leases, Placed
  <2>3. PICK b \in BOOLEAN :
          /\ grants' = Append(grants, [from |-> f, rotates |-> b])
          /\ session'[c].refresh = IF b THEN n ELSE f
    BY <1>3 DEF Refreshes
  <2> DEFINE g == [from |-> f, rotates |-> b]
  <2>4. g \in Grant /\ g.from = f /\ g.rotates = b BY <1>0, GrantsAreTyped
  <2>5. Writes(c)' /\ Replacing(c)' BY <2>1, <2>2 DEF Writes, Replacing
  <2>6. Unpresented' BY <2>5 DEF Unpresented
  <2>7. ReadUnspent(c)'
    <3>1. CASE b
      <4>1. Granted(grants, f) /\ Len(grants) \in Nat /\ f \in Nat \cup {None}
        BY <1>0, TokenTypes DEF Rotating, RefreshKnown
      <4>2. f # n BY <4>1, SessionAssumption DEF Granted
      <4>3. Unused(grants, n) BY <1>0, NewIsUnused DEF Rotating, RefreshKnown
      <4>4. Unused(grants', n) BY <1>0, <2>3, <2>4, <4>2, <4>3, Rewriting
      <4> QED BY <2>3, <3>1, <4>4, UnspentByUnused DEF ReadUnspent
    <3>2. CASE ~ b
      <4>1. Unspent(grants, f) BY <2>1, <2>2 DEF Presenting, ReadUnspent, InHand, HasRead
      <4>2. Unspent(grants', f) BY <1>0, <2>3, <2>4, <3>2, <4>1, Rewriting
      <4> QED BY <2>3, <3>2, <4>2 DEF ReadUnspent
    <3> QED BY <3>1, <3>2
  <2>8. ASSUME NEW d \in Commands \ {c} PROVE ReadUnspent(d)'
    <3>1. ~ InHand(d) BY <1>0, <2>2, HoldsAlone DEF InHand
    <3> QED BY <1>o, <3>1 DEF ReadUnspent
  <2> QED BY <2>6, <2>7, <2>8 DEF Presenting
<1>4. CASE Exchanges(c)
  <2> DEFINE g == [from |-> None, rotates |-> TRUE]
  <2>1. /\ pc[c] = "exchange" /\ pc'[c] = "snapshot" /\ grants' = Append(grants, g)
        /\ UNCHANGED secrets /\ g \in Grant /\ g.from = None
    BY <1>4 DEF Exchanges, Grant
  <2>2. ASSUME NEW r, Unspent(grants, r) PROVE Unspent(grants', r)
    BY <1>0, <2>1, <2>2, Rewriting
  <2>3. Unpresented'
    <3>1. CASE Unspent(grants, secrets.refresh) BY <2>1, <2>2, <3>1 DEF Unpresented
    <3>2. CASE \E d \in Commands : Writes(d) /\ Replacing(d)
      <4>1. PICK d \in Commands : Writes(d) /\ Replacing(d) BY <3>2
      <4>2. d # c BY <2>1, <4>1 DEF Writes
      <4>3. Writes(d)' /\ Replacing(d)' BY <1>o, <4>1, <4>2
      <4> QED BY <4>3 DEF Unpresented
    <3> QED BY <3>1, <3>2 DEF Presenting, Unpresented
  <2>4. ReadUnspent(c)' BY <2>1 DEF ReadUnspent, InHand, HasRead, Replacing
  <2>5. ASSUME NEW d \in Commands \ {c} PROVE ReadUnspent(d)'
    BY <1>o, <2>2 DEF Presenting, ReadUnspent
  <2> QED BY <2>3, <2>4, <2>5 DEF Presenting
<1>5. CASE Remembers(c)
  <2>1. /\ pc[c] = "snapshot" /\ UNCHANGED <<secrets, grants, session>>
    BY <1>5 DEF Remembers
  <2>2. LogsIn(c) BY <1>0, <2>1 DEF Leases, Placed, LogsIn
  <2>3. Unused(grants, session[c].refresh)
    BY <1>0, <2>2 DEF Rotating, Ready, LoginIsPrivate
  <2>4. ReadUnspent(c)' BY <2>1, <2>3, UnspentByUnused DEF ReadUnspent
  <2>5. Unpresented' BY <1>k, <2>1 DEF Writes
  <2> QED BY <1>u, <2>1, <2>4, <2>5 DEF Presenting
<1>6. CASE WritesRefresh(c)
  <2>1. /\ Replacing(c) /\ pc'[c] = "write" /\ at'[c] = 2
        /\ secrets'.refresh = session[c].refresh /\ UNCHANGED grants
    BY <1>6 DEF WritesRefresh
  <2>2. Unspent(grants, session[c].refresh)
    <3>1. CASE kind[c] = "login"
      BY <1>0, <2>1, <3>1, UnspentByUnused DEF LogsIn, Rotating, Ready, LoginIsPrivate
    <3>2. CASE kind[c] # "login"
      <4>1. c \in locked BY <1>0, <2>1, <3>2 DEF Leases, Placed, Writes, Replacing
      <4> QED BY <2>1, <4>1 DEF Presenting, ReadUnspent, InHand
    <3> QED BY <3>1, <3>2
  <2>3. Unpresented' BY <2>1, <2>2 DEF Unpresented
  <2>4. ReadUnspent(c)' BY <2>1 DEF ReadUnspent, InHand, HasRead, Replacing
  <2> QED BY <1>u, <2>1, <2>3, <2>4 DEF Presenting
<1>7. CASE WritesAccess(c)
  <2>1. /\ at[c] = 2 /\ pc'[c] = "write" /\ at'[c] = 3
        /\ secrets'.refresh = secrets.refresh /\ UNCHANGED grants
    BY <1>7 DEF WritesAccess
  <2>2. Unpresented' BY <1>k, <2>1 DEF Replacing
  <2>3. ReadUnspent(c)' BY <2>1 DEF ReadUnspent, InHand, HasRead, Replacing
  <2> QED BY <1>u, <2>1, <2>2, <2>3 DEF Presenting
<1> QED BY <1>1, <1>2, <1>3, <1>4, <1>5, <1>6, <1>7 DEF Rotates, Loses, FailsToWrite

-----------------------------------------------------------------------------
Rotation ==
  /\ TokensKnown /\ Leases
  /\ mishaps \subseteq {"loss"} => Rotating
  /\ mishaps = {} => Presenting

LEMMA RotationInit == Init => Rotation
<1> SUFFICES ASSUME Init PROVE Rotation
  OBVIOUS
<1>0. /\ \A c \in Commands : /\ pc[c] = "idle" /\ kind[c] = None /\ session[c] = NoEntries
                             /\ before[c] = NoEntries /\ rejected[c] = None
      /\ locked = {} /\ lapsed = {} /\ mishaps = {} /\ lease = None
  BY DEF Init
<1>1. /\ secrets = NoEntries /\ grants = <<>>
      \/ /\ secrets.access = 1 /\ secrets.refresh = 1
         /\ grants = <<[from |-> None, rotates |-> TRUE]>>
  BY DEF Init, SessionOf
<1>n. NoEntries.access = None /\ NoEntries.refresh = None
  BY DEF NoEntries
<1>2. TokensKnown
  BY <1>0, <1>1, <1>n DEF TokensKnown, Known
<1>3. Leases
  <2>1. None # "login" BY SessionAssumption
  <2> QED BY <1>0, <2>1 DEF Leases, RefresherHoldsLease, Placed, Writes
<1>4. \A n \in DOMAIN grants : grants[n].from = None
  BY <1>1
<1>5. RefreshKnown
  BY <1>0, <1>1, <1>4, <1>n DEF RefreshKnown, Granted
<1>6. KeyringCurrent /\ Unpresented
  BY <1>4 DEF KeyringCurrent, Unpresented, Current, Unspent
<1>7. ASSUME NEW c \in Commands PROVE Ready(c) /\ ReadUnspent(c)
  BY <1>0 DEF Ready, ReadCurrent, WritesCurrent, LoginIsNew, LoginIsPrivate, ReadUnspent, InHand,
     HasRead, Replacing, Writes, LogsIn
<1> QED BY <1>2, <1>3, <1>5, <1>6, <1>7 DEF Rotation, Rotating, Presenting

LEMMA RotationStep == Typed /\ Typed' /\ Rotation /\ [Next]_vars => Rotation'
<1> SUFFICES ASSUME Typed, Typed', Rotation, [Next]_vars PROVE Rotation'
  OBVIOUS
<1>1. ASSUME NEW c \in Commands, Begin(c) \/ Step(c) \/ Fail(c) \/ Crash(c)
      PROVE  Rotation'
  <2>1. OthersStay(c) /\ TokenMoves(c) /\ LeaseMoves(c) /\ mishaps \subseteq mishaps'
    BY <1>1, OthersStayAlways, TokensMoveSo, LeaseMovesSo, MishapsStay
  <2>2. TokensKnown' BY <2>1, TokensStayKnown DEF Rotation
  <2>3. Leases' BY <1>1, LeasesStep DEF Rotation
  <2>4. Rotates(c) BY <1>1, RotatesSo DEF Rotation, Leases
  <2>5. ASSUME mishaps' \subseteq {"loss"} PROVE Undisturbed(c)
    <3>1. mishaps \subseteq {"loss"} /\ "restore" \notin mishaps' /\ "lapse" \notin mishaps'
      BY <2>1, <2>5
    <3> QED BY <2>1, <3>1 DEF Undisturbed, Rotation
  <2>6. mishaps' \subseteq {"loss"} => Rotating' BY <2>4, <2>5, RotatingStep
  <2>7. ASSUME mishaps' = {} PROVE Presenting'
    <3>1. Presenting BY <2>1, <2>7 DEF Rotation
    <3> QED BY <2>4, <2>5, <2>7, <3>1, PresentingStep
  <2> QED BY <2>2, <2>3, <2>6, <2>7 DEF Rotation
<1>2. ASSUME Lapse \/ UNCHANGED vars PROVE Rotation'
  <2>1. /\ UNCHANGED <<secrets, grants, kind, pc, at, session, before, rejected, locked>>
        /\ mishaps \subseteq mishaps'
    BY <1>2 DEF Lapse, vars, control, private, history
  <2>2. TokensKnown' BY <2>1 DEF Rotation, TokensKnown, Known
  <2>3. Leases'
    <3>1. RefresherHoldsLease' /\ (lapsed' # {} => "lapse" \in mishaps')
      BY <1>2 DEF Rotation, Leases, Lapse, vars, history, RefresherHoldsLease
    <3> QED BY <2>1, <3>1 DEF Rotation, Leases, Placed, Writes
  <2>4. mishaps' \subseteq {"loss"} => Rotating'
    BY <2>1 DEF Rotation, Rotating, RefreshKnown, KeyringCurrent, Ready, ReadCurrent,
       WritesCurrent, LoginIsNew, LoginIsPrivate, InHand, HasRead, Replacing, Writes, LogsIn
  <2>5. mishaps' = {} => Presenting'
    <3>1. mishaps' = {} => mishaps = {} BY <2>1
    <3> QED BY <2>1, <3>1 DEF Rotation, Presenting, Unpresented, ReadUnspent, InHand, HasRead,
         Replacing, Writes
  <2> QED BY <2>2, <2>3, <2>4, <2>5 DEF Rotation
<1> QED BY <1>1, <1>2 DEF Next

LEMMA AlwaysRotation == Spec => []Rotation
BY RotationInit, RotationStep, AlwaysTyped, PTL DEF Spec

(* Whenever a command stops between two writes, the keyring does not hold    *)
(* the access token of a grant beside the refresh token it replaced.         *)
THEOREM KeyringStaysCurrent == Spec => []RefreshTokenFirst
<1>1. Rotation => RefreshTokenFirst
  BY DEF Rotation, Rotating, KeyringCurrent, Current, RefreshTokenFirst, Replaces
<1> QED BY <1>1, AlwaysRotation, PTL

(* No command presents a refresh token that was replaced, however many find  *)
(* their access token expired or rejected at once.                           *)
THEOREM PresentedOnce == Spec => []TokensArePresentedOnce
<1>1. Rotation => TokensArePresentedOnce
  <2> SUFFICES ASSUME Rotation, mishaps = {}, NEW c \in Commands, pc[c] = "refresh"
               PROVE  Unspent(grants, session[c].refresh)
    BY DEF TokensArePresentedOnce, Replaces, Unspent
  <2>1. InHand(c) BY DEF Rotation, Leases, Placed, InHand, HasRead
  <2> QED BY <2>1 DEF Rotation, Presenting, ReadUnspent
<1> QED BY <1>1, AlwaysRotation, PTL
=============================================================================
