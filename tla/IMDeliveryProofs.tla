-------------------------- MODULE IMDeliveryProofs --------------------------
(***************************************************************************)
(* What TLAPS proves of IMDelivery, for any number of concurrent requests, *)
(* accounts, targets and mirrored texts, and every choice of faults.       *)
(*                                                                         *)
(* The argument: an ID names one row and is handed out once, so a target   *)
(* keeps its account as long as it exists (Keeps).  Whoever aims at a      *)
(* target, a mirror that is on, a queued text or a call that has found or  *)
(* checked it, has got it together with its account (CarriesOwn).  A       *)
(* selection that is off may be anything; but its target ID, as that of    *)
(* everybody else, has been handed out (KnownTargets), so that no later    *)
(* row can take its place.  For the mirror, a deletion must not overlap    *)
(* another request; what it takes away, it repairs (Aimed).                *)
(***************************************************************************)
EXTENDS IMDelivery, TLAPS

\* What a call has been given or has read.
LoginArgs  == [login : Logins, hasDefault : BOOLEAN]
TargetArgs == [user : Users, setDefault : BOOLEAN]
Args       == Logins \cup {None} \cup LoginArgs \cup TargetArgs \cup BOOLEAN

CallRecords == [at : Places, account : AccountIDs \cup {None},
                target : TargetIDs \cup {None}, arg : Args]

\* The calls, and what their places say of their arguments.
ArgsFit(k) ==
  /\ k.at \in {"login", "owner"} => k.arg \in Logins
  /\ k.at = "ownerTarget" => k.arg \in LoginArgs
  /\ k.at = "target" => k.arg \in TargetArgs
  /\ k.at = "update" => k.arg \in BOOLEAN
  /\ k.at \in {"owner", "ownerTarget", "target"} => k.account \in AccountIDs

CallsOK ==
  /\ calls \in [Callers -> CallRecords]
  /\ \A c \in Callers : ArgsFit(calls[c])

\* The IDs of targets that anybody carries have been handed out.
KnownTargets ==
  /\ selection.target <= lastID.target
  /\ \A i \in DOMAIN queue : queue[i].target <= lastID.target
  /\ \A c \in Callers : calls[c].target <= lastID.target

\* Whoever aims at a target carries its account; a selection that is off and
\* an update that switches off need not.
OwnTarget(s) == \A x \in targets : x.id = s.target => x.account = s.account

CarriesOwn ==
  /\ selection.enabled => OwnTarget(selection)
  /\ \A i \in DOMAIN queue : OwnTarget(queue[i])
  /\ \A c \in Callers : Aims(calls[c]) => OwnTarget(calls[c])

\* The tables, and the types of what is beside them.
TablesOK ==
  /\ accounts \subseteq Accounts
  /\ targets \subseteq Targets
  /\ lastID \in [account : 0..MaxAccounts, target : 0..MaxTargets]
  /\ \A x \in accounts : x.id <= lastID.account
  /\ \A x \in targets : x.id <= lastID.target
  /\ TablesAreSound

RestOK ==
  /\ selection \in Selections
  /\ queue \in Seq(Selections)
  /\ Len(queue) <= QueueCap
  /\ unrepaired \in BOOLEAN

IMInv == TablesOK /\ RestOK /\ CallsOK /\ KnownTargets /\ CarriesOwn

\* A step keeps the account of every target, or makes a target with a new ID.
Keeps ==
  /\ lastID'.target >= lastID.target
  /\ \A y \in targets' :
       \/ \E x \in targets : x.id = y.id /\ x.account = y.account
       \/ y.id > lastID.target

-----------------------------------------------------------------------------
(* The tables. *)

\* ClearOtherDefaults changes nothing but flags.
LEMMA ClearRows ==
  ASSUME NEW T \in SUBSET Targets, NEW a \in AccountIDs, NEW t \in TargetIDs,
         NEW y \in ClearOtherDefaults(T, a, t)
  PROVE  /\ y \in Targets
         /\ \E x \in T : /\ y.id = x.id /\ y.account = x.account /\ y.user = x.user
                         /\ y.isDefault = (x.isDefault /\ ~(x.account = a /\ x.id # t))
<1>1. PICK x \in T : y = IF x.account = a /\ x.id # t
                         THEN [x EXCEPT !.isDefault = FALSE] ELSE x
  BY DEF ClearOtherDefaults
<1>2. x \in Targets
  OBVIOUS
<1>3. CASE x.account = a /\ x.id # t
  <2>1. y = [x EXCEPT !.isDefault = FALSE]
    BY <1>1, <1>3
  <2>2. y.id = x.id /\ y.account = x.account /\ y.user = x.user /\ y.isDefault = FALSE
    BY <1>2, <2>1 DEF Targets
  <2>3. y \in Targets
    BY <1>2, <2>1 DEF Targets
  <2> QED BY <2>2, <2>3, <1>3
<1>4. CASE ~(x.account = a /\ x.id # t)
  <2>1. y = x
    BY <1>1, <1>4
  <2>2. x.isDefault \in BOOLEAN
    BY <1>2 DEF Targets
  <2> QED BY <1>2, <1>4, <2>1, <2>2
<1> QED BY <1>3, <1>4

\* Store.UpsertTarget keeps the tables in order.
LEMMA UpsertRow ==
  ASSUME TablesOK, UNCHANGED accounts, NEW a \in AccountIDs, NEW u \in Users,
         NEW d \in BOOLEAN, NEW t \in TargetIDs, UpsertTargetRow(a, u, d, t)
  PROVE  /\ TablesOK'
         /\ Keeps
         /\ t <= lastID'.target
         /\ \A y \in targets' : y.id = t => y.account = a
<1> USE BoundsAssumption
<1>1. CASE \E x \in targets :
             /\ x.account = a /\ x.user = u /\ t = x.id
             /\ LET new == [x EXCEPT !.isDefault = @ \/ d]
                IN  targets' = IF new.isDefault
                               THEN ClearOtherDefaults((targets \ {x}) \cup {new}, a, t)
                               ELSE targets
  <2>0. lastID' = lastID
    BY <1>1 DEF UpsertTargetRow, TablesOK, TargetIDs, Targets
  <2>1. PICK x \in targets :
             /\ x.account = a /\ x.user = u /\ t = x.id
             /\ LET new == [x EXCEPT !.isDefault = @ \/ d]
                IN  targets' = IF new.isDefault
                               THEN ClearOtherDefaults((targets \ {x}) \cup {new}, a, t)
                               ELSE targets
    BY <1>1
  <2> DEFINE new == [x EXCEPT !.isDefault = @ \/ d]
             T   == (targets \ {x}) \cup {new}
  <2>2. x \in Targets /\ new \in Targets
    BY <2>1 DEF TablesOK, Targets
  <2>3. new.id = x.id /\ new.account = x.account /\ new.user = x.user
    BY <2>2 DEF Targets
  <2>4. CASE ~new.isDefault
    <3>1. targets' = targets
      BY <2>1, <2>4
    <3>2. TablesOK'
      BY <3>1, <2>0 DEF TablesOK, TablesAreSound
    <3>3. Keeps
      BY <3>1, <2>0 DEF Keeps, TablesOK
    <3>4. \A y \in targets : y.id = t => y.account = a
      BY <2>1 DEF TablesOK, TablesAreSound
    <3>5. t <= lastID.target
      BY <2>1 DEF TablesOK
    <3> QED BY <3>1, <3>2, <3>3, <3>4, <3>5, <2>0
  <2>5. CASE new.isDefault
    <3> HIDE DEF new
    <3>1. targets' = ClearOtherDefaults(T, a, t)
      BY <2>1, <2>5 DEF new
    <3>2. T \in SUBSET Targets
      BY <2>2 DEF TablesOK
    <3>3. \A y \in targets' :
            /\ y \in Targets
            /\ \E z \in T : /\ y.id = z.id /\ y.account = z.account /\ y.user = z.user
                            /\ y.isDefault = (z.isDefault /\ ~(z.account = a /\ z.id # t))
      BY ONLY ClearRows, <3>1, <3>2, a \in AccountIDs, t \in TargetIDs
    <3> HIDE DEF T
    <3>4. \A z \in T : \E w \in targets : /\ w.id = z.id /\ w.account = z.account
                                          /\ w.user = z.user
                                          /\ w = z \/ w = x
      BY <2>1, <2>3 DEF T
    <3>5. \A y \in targets' : \E w \in targets : /\ w.id = y.id /\ w.account = y.account
                                                 /\ w.user = y.user
      BY <3>3, <3>4
    <3>6. \A y \in targets' : y.isDefault => y.account # a \/ y.id = t
      <4> SUFFICES ASSUME NEW y \in targets', y.isDefault
                   PROVE  y.account # a \/ y.id = t
        OBVIOUS
      <4>1. PICK z \in T : /\ y.id = z.id /\ y.account = z.account
                           /\ y.isDefault = (z.isDefault /\ ~(z.account = a /\ z.id # t))
        BY <3>3
      <4> QED BY <4>1
    <3>7. \A y \in targets' : y.isDefault /\ y.account # a =>
            \E w \in targets : w.id = y.id /\ w.account = y.account /\ w.isDefault
      <4> SUFFICES ASSUME NEW y \in targets', y.isDefault, y.account # a
                   PROVE  \E w \in targets :
                            w.id = y.id /\ w.account = y.account /\ w.isDefault
        OBVIOUS
      <4>1. PICK z \in T : /\ y.id = z.id /\ y.account = z.account
                           /\ y.isDefault = (z.isDefault /\ ~(z.account = a /\ z.id # t))
        BY <3>3
      <4>2. z \in targets
        BY <4>1, <2>1, <2>3 DEF T
      <4> QED BY <4>1, <4>2
    <3>8. \A y, z \in targets' : y.id = z.id => y = z
      <4> SUFFICES ASSUME NEW y \in targets', NEW z \in targets', y.id = z.id
                   PROVE  y = z
        OBVIOUS
      <4>1. PICK v \in T : /\ y.id = v.id /\ y.account = v.account /\ y.user = v.user
                           /\ y.isDefault = (v.isDefault /\ ~(v.account = a /\ v.id # t))
        BY <3>3
      <4>2. PICK w \in T : /\ z.id = w.id /\ z.account = w.account /\ z.user = w.user
                           /\ z.isDefault = (w.isDefault /\ ~(w.account = a /\ w.id # t))
        BY <3>3
      <4>3. v = w
        BY <4>1, <4>2, <2>1, <2>3 DEF T, TablesOK, TablesAreSound
      <4> QED BY <4>1, <4>2, <4>3, <3>3 DEF Targets
    <3>9. TablesAreSound'
      <4>1. \A y, z \in targets' : y.account = z.account /\ y.user = z.user => y.id = z.id
        BY <3>5 DEF TablesOK, TablesAreSound
      <4>2. \A y, z \in targets' :
              y.account = z.account /\ y.isDefault /\ z.isDefault => y.id = z.id
        BY <3>6, <3>7 DEF TablesOK, TablesAreSound
      <4>3. \A y, z \in accounts' : y.id = z.id \/ y.login = z.login => y = z
        BY DEF TablesOK, TablesAreSound
      <4> QED BY <4>1, <4>2, <4>3, <3>8 DEF TablesAreSound
    <3>10. targets' \subseteq Targets /\ \A y \in targets' : y.id <= lastID'.target
      BY <3>3, <3>5, <2>0 DEF TablesOK
    <3>11. Keeps /\ \A y \in targets' : y.id = t => y.account = a
      <4>1. Keeps
        BY <3>5, <2>0 DEF Keeps, TablesOK
      <4>2. \A w \in targets : w.id = t => w.account = a
        BY <2>1 DEF TablesOK, TablesAreSound
      <4> QED BY <3>5, <4>1, <4>2
    <3>12. t <= lastID'.target
      BY <2>0, <2>1 DEF TablesOK
    <3> QED BY <3>9, <3>10, <3>11, <3>12, <2>0 DEF TablesOK
  <2> QED BY <2>4, <2>5
<1>2. CASE /\ \A x \in targets : ~(x.account = a /\ x.user = u)
           /\ t = lastID.target + 1
           /\ t <= MaxTargets
           /\ lastID' = [lastID EXCEPT !.target = t]
           /\ LET new == [id |-> t, account |-> a, user |-> u, isDefault |-> d]
              IN  targets' = IF d THEN ClearOtherDefaults(targets \cup {new}, a, t)
                             ELSE targets \cup {new}
  <2> DEFINE new == [id |-> t, account |-> a, user |-> u, isDefault |-> d]
             T   == targets \cup {new}
  <2>1. lastID' \in [account : 0..MaxAccounts, target : 0..MaxTargets]
        /\ lastID'.target = t /\ lastID'.account = lastID.account
    BY <1>2 DEF TablesOK
  <2>2. new \in Targets
    BY DEF Targets
  <2>3. \A x \in targets : x.id < t /\ x.id # new.id
    BY <1>2 DEF TablesOK, Targets, TargetIDs
  <2>4. T \in SUBSET Targets
    BY <2>2 DEF TablesOK
  <2>5. CASE d
    <3>1. targets' = ClearOtherDefaults(T, a, t)
      BY <1>2, <2>5
    <3> HIDE DEF T
    <3>2. \A y \in targets' :
            /\ y \in Targets
            /\ \E z \in T : /\ y.id = z.id /\ y.account = z.account /\ y.user = z.user
                            /\ y.isDefault = (z.isDefault /\ ~(z.account = a /\ z.id # t))
      BY ONLY ClearRows, <3>1, <2>4, a \in AccountIDs, t \in TargetIDs
    <3>3. \A v, w \in T : /\ v.id = w.id => v = w
                          /\ v.account = w.account /\ v.user = w.user => v = w
      BY <1>2, <2>3 DEF T, TablesOK, TablesAreSound
    <3>4. \A v, w \in T : v.account = w.account /\ v.isDefault /\ w.isDefault
                          /\ v.account # a => v = w
      BY <1>2 DEF T, TablesOK, TablesAreSound
    <3>5. \A y, z \in targets' : y.id = z.id => y = z
      <4> SUFFICES ASSUME NEW y \in targets', NEW z \in targets', y.id = z.id
                   PROVE  y = z
        OBVIOUS
      <4>1. PICK v \in T : /\ y.id = v.id /\ y.account = v.account /\ y.user = v.user
                           /\ y.isDefault = (v.isDefault /\ ~(v.account = a /\ v.id # t))
        BY <3>2
      <4>2. PICK w \in T : /\ z.id = w.id /\ z.account = w.account /\ z.user = w.user
                           /\ z.isDefault = (w.isDefault /\ ~(w.account = a /\ w.id # t))
        BY <3>2
      <4>3. v = w
        BY <4>1, <4>2, <3>3
      <4> QED BY <4>1, <4>2, <4>3, <3>2 DEF Targets
    <3>6. TablesAreSound'
      <4>1. \A y, z \in targets' : y.account = z.account /\ y.user = z.user => y.id = z.id
        BY <3>2, <3>3
      <4>2. \A y, z \in targets' :
              y.account = z.account /\ y.isDefault /\ z.isDefault => y.id = z.id
        <5> SUFFICES ASSUME NEW y \in targets', NEW z \in targets',
                            y.account = z.account, y.isDefault, z.isDefault
                     PROVE  y.id = z.id
          OBVIOUS
        <5>1. PICK v \in T : /\ y.id = v.id /\ y.account = v.account
                             /\ y.isDefault = (v.isDefault /\ ~(v.account = a /\ v.id # t))
          BY <3>2
        <5>2. PICK w \in T : /\ z.id = w.id /\ z.account = w.account
                             /\ z.isDefault = (w.isDefault /\ ~(w.account = a /\ w.id # t))
          BY <3>2
        <5>3. /\ v.isDefault /\ ~(v.account = a /\ v.id # t)
              /\ w.isDefault /\ ~(w.account = a /\ w.id # t)
          BY <5>1, <5>2
        <5>4. CASE v.account = a
          BY <5>1, <5>2, <5>3, <5>4
        <5>5. CASE v.account # a
          BY <5>1, <5>2, <5>3, <5>5, <3>4
        <5> QED BY <5>4, <5>5
      <4>3. \A y, z \in accounts' : y.id = z.id \/ y.login = z.login => y = z
        BY DEF TablesOK, TablesAreSound
      <4> QED BY <4>1, <4>2, <4>3, <3>5 DEF TablesAreSound
    <3>7. \A z \in T : z.id <= t /\ (z \in targets \/ z = new)
      BY <2>3 DEF T, Targets, TargetIDs, TablesOK
    <3>8. Keeps
      <4>1. \A y \in targets' :
              \/ \E x \in targets : x.id = y.id /\ x.account = y.account
              \/ y.id = t
        <5> SUFFICES ASSUME NEW y \in targets'
                     PROVE  \/ \E x \in targets : x.id = y.id /\ x.account = y.account
                            \/ y.id = t
          OBVIOUS
        <5>1. PICK z \in T : y.id = z.id /\ y.account = z.account
          BY <3>2
        <5>2. z \in targets \/ z.id = t
          BY <3>7
        <5> QED BY <5>1, <5>2
      <4>2. lastID.target \in Nat /\ lastID'.target = lastID.target + 1
        BY <1>2, <2>1 DEF TablesOK
      <4> QED BY <4>1, <4>2, <2>1 DEF Keeps
    <3>9. targets' \subseteq Targets /\ \A y \in targets' : y.id <= t
      BY <3>2, <3>7
    <3>10. \A y \in targets' : y.id = t => y.account = a
      BY <3>2, <3>7, <2>3
    <3> QED BY <3>6, <3>8, <3>9, <3>10, <2>1 DEF TablesOK, Accounts
  <2>6. CASE ~d
    <3>1. targets' = targets \cup {new}
      BY <1>2, <2>6
    <3>2. TablesAreSound'
      BY <1>2, <2>3, <2>6, <3>1 DEF TablesOK, TablesAreSound
    <3>3. targets' \subseteq Targets /\ \A y \in targets' : y.id <= t
      BY <2>2, <2>3, <3>1 DEF TablesOK, Targets, TargetIDs
    <3>4. Keeps /\ \A y \in targets' : y.id = t => y.account = a
      BY <1>2, <2>1, <2>3, <3>1 DEF Keeps, TablesOK
    <3> QED BY <3>2, <3>3, <3>4, <2>1 DEF TablesOK
  <2> QED BY <2>5, <2>6
<1> QED BY <1>1, <1>2 DEF UpsertTargetRow

\* The other operations of the tables.
LEMMA UpsertAccountRow ==
  ASSUME IMInv, NEW r \in Requests, UpsertAccount(r)
  PROVE  TablesOK' /\ Keeps
<1> USE BoundsAssumption
<1>1. CASE UNCHANGED <<accounts, lastID>>
  BY <1>1 DEF UpsertAccount, IMInv, TablesOK, TablesAreSound, Keeps
<1>2. CASE /\ \A x \in accounts : x.login # calls[r].arg
           /\ lastID.account < MaxAccounts
           /\ lastID' = [lastID EXCEPT !.account = @ + 1]
           /\ accounts' = accounts \cup {[id |-> lastID'.account, login |-> calls[r].arg]}
  <2>0. At(r, "login") /\ UNCHANGED targets
    BY DEF UpsertAccount
  <2>1. calls[r].arg \in Logins
    BY <2>0 DEF IMInv, CallsOK, ArgsFit, At, Callers
  <2>2. /\ lastID' \in [account : 0..MaxAccounts, target : 0..MaxTargets]
        /\ lastID'.account = lastID.account + 1 /\ lastID'.target = lastID.target
    BY <1>2 DEF IMInv, TablesOK
  <2>3. /\ lastID'.account \in AccountIDs
        /\ \A x \in accounts : x.id < lastID'.account
    BY <1>2, <2>2 DEF IMInv, TablesOK, AccountIDs, Accounts
  <2>4. accounts' \subseteq Accounts /\ \A x \in accounts' : x.id <= lastID'.account
    BY <1>2, <2>1, <2>2, <2>3 DEF IMInv, TablesOK, Accounts, AccountIDs
  <2>5. \A x, y \in accounts' : x.id = y.id \/ x.login = y.login => x = y
    BY <1>2, <2>2, <2>3 DEF IMInv, TablesOK, TablesAreSound, Accounts, AccountIDs
  <2>6. TablesOK'
    BY <2>0, <2>2, <2>4, <2>5 DEF IMInv, TablesOK, TablesAreSound
  <2>7. Keeps
    BY <2>0, <2>2 DEF IMInv, TablesOK, Keeps
  <2> QED BY <2>6, <2>7
<1> QED BY <1>1, <1>2 DEF UpsertAccount

LEMMA SetDefaultRows ==
  ASSUME IMInv, NEW r \in Requests, SetDefaultTarget(r)
  PROVE  TablesOK' /\ Keeps
<1>0. UNCHANGED <<accounts, lastID>>
  BY DEF SetDefaultTarget
<1>1. \A y \in targets' :
        /\ y \in Targets
        /\ \E x \in targets : /\ y.id = x.id /\ y.account = x.account /\ y.user = x.user
                              /\ x.account # calls[r].account => y = x
                              /\ x.account = calls[r].account =>
                                   y.isDefault = (x.id = calls[r].target)
  BY DEF SetDefaultTarget, IMInv, TablesOK, Targets
<1>2. \A y, z \in targets' : y.id = z.id => y = z
  <2> SUFFICES ASSUME NEW y \in targets', NEW z \in targets', y.id = z.id
               PROVE  y = z
    OBVIOUS
  <2>1. PICK v \in targets : /\ y.id = v.id /\ y.account = v.account /\ y.user = v.user
                             /\ v.account # calls[r].account => y = v
                             /\ v.account = calls[r].account =>
                                  y.isDefault = (v.id = calls[r].target)
    BY <1>1
  <2>2. PICK w \in targets : /\ z.id = w.id /\ z.account = w.account /\ z.user = w.user
                             /\ w.account # calls[r].account => z = w
                             /\ w.account = calls[r].account =>
                                  z.isDefault = (w.id = calls[r].target)
    BY <1>1
  <2>3. v = w
    BY <2>1, <2>2 DEF IMInv, TablesOK, TablesAreSound
  <2> QED BY <2>1, <2>2, <2>3, <1>1 DEF Targets
<1>3. \A y, z \in targets' : y.account = z.account /\ y.user = z.user => y.id = z.id
  BY <1>1 DEF IMInv, TablesOK, TablesAreSound
<1>4. \A y, z \in targets' :
        y.account = z.account /\ y.isDefault /\ z.isDefault => y.id = z.id
  <2> SUFFICES ASSUME NEW y \in targets', NEW z \in targets',
                      y.account = z.account, y.isDefault, z.isDefault
               PROVE  y.id = z.id
    OBVIOUS
  <2>1. CASE y.account = calls[r].account
    BY <1>1, <2>1
  <2>2. CASE y.account # calls[r].account
    <3>1. y \in targets /\ z \in targets
      BY <1>1, <2>2
    <3> QED BY <3>1 DEF IMInv, TablesOK, TablesAreSound
  <2> QED BY <2>1, <2>2
<1>5. TablesAreSound'
  BY <1>0, <1>2, <1>3, <1>4 DEF IMInv, TablesOK, TablesAreSound
<1>6. targets' \subseteq Targets /\ \A y \in targets' : y.id <= lastID.target
  BY <1>1 DEF IMInv, TablesOK
<1>7. Keeps
  BY <1>0, <1>1 DEF IMInv, TablesOK, Keeps
<1> QED BY <1>0, <1>5, <1>6, <1>7 DEF IMInv, TablesOK

\* Deletions, and steps that leave the tables alone.
LEMMA FewerRows ==
  ASSUME IMInv, accounts' \subseteq accounts, targets' \subseteq targets,
         UNCHANGED lastID
  PROVE  TablesOK' /\ Keeps
BY DEF IMInv, TablesOK, TablesAreSound, Keeps

-----------------------------------------------------------------------------
(* What is carried. *)

LEMMA OwnKept ==
  ASSUME IMInv, Keeps, NEW s, OwnTarget(s), s.target <= lastID.target,
         s.target \in Nat
  PROVE  \A y \in targets' : y.id = s.target => y.account = s.account
BY DEF IMInv, TablesOK, Keeps, OwnTarget

LEMMA SelectionKept ==
  ASSUME IMInv, Keeps, TablesOK', UNCHANGED selection
  PROVE  /\ selection'.target <= lastID'.target
         /\ selection'.enabled => OwnTarget(selection)'
<1>1. selection.target \in Nat /\ selection.target <= lastID.target
      /\ (selection.enabled => OwnTarget(selection))
  BY BoundsAssumption DEF IMInv, RestOK, Selections, KnownTargets, CarriesOwn,
                          TargetIDs, None
<1>2. selection.enabled =>
        \A y \in targets' : y.id = selection.target => y.account = selection.account
  BY <1>1, OwnKept
<1> QED BY <1>1, <1>2, BoundsAssumption DEF OwnTarget, Keeps, IMInv, TablesOK

LEMMA QueueKept ==
  ASSUME IMInv, Keeps, TablesOK', UNCHANGED queue
  PROVE  \A i \in DOMAIN queue' : /\ queue'[i].target <= lastID'.target
                                  /\ OwnTarget(queue[i])'
<1> SUFFICES ASSUME NEW i \in DOMAIN queue
             PROVE  queue[i].target <= lastID'.target /\ OwnTarget(queue[i])'
  OBVIOUS
<1>1. queue[i] \in Selections
  BY DEF IMInv, RestOK
<1>2. queue[i].target \in Nat /\ queue[i].target <= lastID.target
      /\ OwnTarget(queue[i])
  BY <1>1, BoundsAssumption DEF IMInv, Selections, KnownTargets, CarriesOwn,
                                TargetIDs, None
<1>3. \A y \in targets' : y.id = queue[i].target => y.account = queue[i].account
  BY <1>2, OwnKept
<1> QED BY <1>2, <1>3, BoundsAssumption DEF OwnTarget, Keeps, IMInv, TablesOK

\* One call goes on, the others keep what they carry.
LEMMA CallsKept ==
  ASSUME IMInv, Keeps, TablesOK', NEW c \in Callers, NEW k \in CallRecords,
         Set(c, k), ArgsFit(k), k.target <= lastID'.target,
         Aims(k) => \A y \in targets' : y.id = k.target => y.account = k.account
  PROVE  /\ CallsOK'
         /\ \A d \in Callers : /\ calls'[d].target <= lastID'.target
                               /\ Aims(calls'[d]) => OwnTarget(calls[d])'
<1>1. calls' \in [Callers -> CallRecords]
  BY DEF IMInv, CallsOK, Set
<1>2. \A d \in Callers : calls'[d] = IF d = c THEN k ELSE calls[d]
  BY DEF IMInv, CallsOK, Set
<1>3. CallsOK'
  BY <1>1, <1>2 DEF IMInv, CallsOK
<1>4. SUFFICES ASSUME NEW d \in Callers
               PROVE  /\ calls'[d].target <= lastID'.target
                      /\ Aims(calls'[d]) => OwnTarget(calls[d])'
  BY <1>3
<1>5. CASE d = c
  BY <1>2, <1>5 DEF OwnTarget
<1>6. CASE d # c
  <2>1. calls'[d] = calls[d] /\ calls[d] \in CallRecords
    BY <1>2, <1>6 DEF IMInv, CallsOK
  <2>2. calls[d].target \in Nat /\ calls[d].target <= lastID.target
    BY <2>1, BoundsAssumption DEF IMInv, KnownTargets, CallRecords, TargetIDs, None
  <2>3. ASSUME Aims(calls[d])
        PROVE  \A y \in targets' : y.id = calls[d].target => y.account = calls[d].account
    <3>1. OwnTarget(calls[d])
      BY <2>3 DEF IMInv, CarriesOwn
    <3> QED BY <3>1, <2>2, OwnKept
  <2>4. calls[d].target <= lastID'.target
    BY <2>2, BoundsAssumption DEF Keeps, IMInv, TablesOK
  <2> QED BY <2>1, <2>3, <2>4 DEF OwnTarget
<1> QED BY <1>5, <1>6

LEMMA GotoSets ==
  ASSUME IMInv, NEW c \in Callers, NEW p \in Places, Goto(c, p)
  PROVE  Set(c, [calls[c] EXCEPT !.at = p])
BY DEF IMInv, CallsOK, Goto, Set

\* A step of one call that leaves the settings and the queue alone.
LEMMA OneCall ==
  ASSUME IMInv, Keeps, TablesOK', UNCHANGED <<selection, queue>>,
         unrepaired' \in BOOLEAN,
         NEW c \in Callers, NEW k \in CallRecords,
         Set(c, k), ArgsFit(k), k.target <= lastID'.target,
         Aims(k) => \A y \in targets' : y.id = k.target => y.account = k.account
  PROVE  IMInv'
<1>1. /\ CallsOK'
      /\ \A d \in Callers : /\ calls'[d].target <= lastID'.target
                            /\ Aims(calls'[d]) => OwnTarget(calls[d])'
  BY CallsKept
<1>2. RestOK'
  BY DEF IMInv, RestOK
<1> QED BY <1>1, <1>2, SelectionKept, QueueKept DEF IMInv, KnownTargets, CarriesOwn

\* The settings are written in the last step of a call, or before it delivers.
LEMMA OneWrite ==
  ASSUME IMInv, UNCHANGED <<storeVars, queue>>, unrepaired' \in BOOLEAN,
         selection' \in Selections, selection'.target <= lastID.target,
         selection'.enabled =>
           \A y \in targets : y.id = selection'.target => y.account = selection'.account,
         NEW c \in Callers, NEW k \in CallRecords,
         Set(c, k), ArgsFit(k), k.target <= lastID.target,
         Aims(k) => \A y \in targets : y.id = k.target => y.account = k.account
  PROVE  IMInv'
<1>0. TablesOK' /\ Keeps
  BY FewerRows DEF storeVars
<1>1. /\ CallsOK'
      /\ \A d \in Callers : /\ calls'[d].target <= lastID'.target
                            /\ Aims(calls'[d]) => OwnTarget(calls[d])'
  BY <1>0, CallsKept DEF storeVars
<1>2. RestOK'
  BY DEF IMInv, RestOK
<1>3. (selection'.enabled => OwnTarget(selection)') /\ selection'.target <= lastID'.target
  BY DEF OwnTarget, storeVars
<1> QED BY <1>0, <1>1, <1>2, <1>3, QueueKept DEF IMInv, KnownTargets, CarriesOwn

-----------------------------------------------------------------------------
(* One lemma for the steps that only move a call, then one for each group of *)
(* actions.                                                                  *)

LEMMA IMInitOK == ASSUME Init PROVE IMInv
<1> USE BoundsAssumption DEF Init
<1>1. TablesOK
  BY DEF TablesOK, TablesAreSound
<1>2. RestOK
  <2>1. selection \in Selections /\ unrepaired \in BOOLEAN
    BY DEF NothingSelected, Selection, Selections, None
  <2>2. queue \in Seq(Selections) /\ Len(queue) <= QueueCap
    OBVIOUS
  <2> QED BY <2>1, <2>2 DEF RestOK
<1>3. IdleCall \in CallRecords /\ ArgsFit(IdleCall)
  BY DEF IdleCall, Call, CallRecords, Places, Args, None, ArgsFit
<1>4. CallsOK
  BY <1>3 DEF CallsOK
<1>5. KnownTargets
  BY DEF KnownTargets, NothingSelected, Selection, None, IdleCall, Call
<1>6. CarriesOwn
  BY DEF CarriesOwn, OwnTarget, IdleCall, Call, Aims
<1> QED BY <1>1, <1>2, <1>4, <1>5, <1>6 DEF IMInv

\* Nothing but one call changes.
LEMMA Quiet ==
  ASSUME IMInv, UNCHANGED <<storeVars, selection, queue, unrepaired>>,
         NEW c \in Callers, NEW k \in CallRecords,
         Set(c, k), ArgsFit(k), k.target <= lastID.target,
         Aims(k) => OwnTarget(k)
  PROVE  IMInv'
<1>1. TablesOK' /\ Keeps
  BY FewerRows DEF storeVars
<1>2. unrepaired' \in BOOLEAN
  BY DEF IMInv, RestOK
<1> QED BY <1>1, <1>2, OneCall DEF storeVars, OwnTarget

\* A call that ends needs nothing.
LEMMA IdleFits ==
  ASSUME IMInv
  PROVE  /\ IdleCall \in CallRecords
         /\ ArgsFit(IdleCall)
         /\ IdleCall.target <= lastID.target
         /\ ~Aims(IdleCall)
BY BoundsAssumption DEF IdleCall, Call, CallRecords, Places, Args, None, ArgsFit,
     Aims, IMInv, TablesOK

\* The last step of a call on the tables.
LEMMA CallEnds ==
  ASSUME IMInv, Keeps, TablesOK', UNCHANGED <<selection, queue, unrepaired>>,
         NEW c \in Callers, Set(c, IdleCall)
  PROVE  IMInv'
<1>1. IdleCall \in CallRecords /\ ArgsFit(IdleCall) /\ IdleCall.target = 0
      /\ ~Aims(IdleCall)
  BY IdleFits DEF IdleCall, Call, None
<1>2. IdleCall.target <= lastID'.target /\ unrepaired' \in BOOLEAN
  BY <1>1, BoundsAssumption DEF TablesOK, IMInv, RestOK
<1> QED BY <1>1, <1>2, OneCall

\* A call that goes on to a place that takes no more than it has.
LEMMA GoesOn ==
  ASSUME IMInv, NEW c \in Callers,
         NEW p \in {"seed", "repair?", "repair", "resolve", "send", "resetSettings"},
         p \in {"repair?", "repair", "resetSettings"} \/ Aims(calls[c])
  PROVE  LET k == [calls[c] EXCEPT !.at = p]
         IN  /\ k \in CallRecords /\ ArgsFit(k)
             /\ k.target <= lastID.target
             /\ Aims(k) => OwnTarget(k)
<1> DEFINE k == [calls[c] EXCEPT !.at = p]
<1>1. calls[c] \in CallRecords
  BY DEF IMInv, CallsOK
<1>2. k \in CallRecords /\ k.at = p /\ k.account = calls[c].account
      /\ k.target = calls[c].target
  BY <1>1 DEF CallRecords, Places
<1>3. ArgsFit(k)
  BY <1>2 DEF ArgsFit
<1>4. k.target <= lastID.target
  BY <1>2 DEF IMInv, KnownTargets
<1>5. Aims(k) => OwnTarget(k)
  BY <1>2 DEF IMInv, CarriesOwn, OwnTarget, Aims
<1> QED BY <1>2, <1>3, <1>4, <1>5

\* A call that moves on, or ends, and changes nothing else.
LEMMA QuietGoto ==
  ASSUME IMInv, UNCHANGED <<storeVars, selection, queue, unrepaired>>,
         NEW c \in Callers,
         \/ Done(c)
         \/ \E p \in {"seed", "repair?", "repair", "resolve", "send"} :
              /\ Goto(c, p)
              /\ p \in {"repair?", "repair"} \/ Aims(calls[c])
  PROVE  IMInv'
<1>1. CASE Done(c)
  BY <1>1, IdleFits, Quiet DEF Done
<1>2. ASSUME NEW p \in {"seed", "repair?", "repair", "resolve", "send"},
             Goto(c, p),
             p \in {"repair?", "repair"} \/ Aims(calls[c])
      PROVE  IMInv'
  <2> DEFINE k == [calls[c] EXCEPT !.at = p]
  <2>1. Set(c, k)
    BY <1>2, GotoSets DEF Places
  <2>2. /\ k \in CallRecords /\ ArgsFit(k) /\ k.target <= lastID.target
        /\ Aims(k) => OwnTarget(k)
    BY <1>2, GoesOn
  <2> HIDE DEF k
  <2> QED BY <2>1, <2>2, Quiet
<1> QED BY <1>1, <1>2

\* A call writes the settings, or fails to, and goes on with what it has.
LEMMA WriteGoesOn ==
  ASSUME IMInv, NEW c \in Callers, NEW k \in CallRecords, NEW new \in Selections,
         UpdateIMDelivery(new), UNCHANGED <<storeVars, queue>>, Set(c, k),
         new.target <= lastID.target,
         new.enabled => \A y \in targets : y.id = new.target => y.account = new.account,
         ArgsFit(k), k.target <= lastID.target,
         Aims(k) => \A y \in targets : y.id = k.target => y.account = k.account
  PROVE  IMInv'
<1>1. CASE /\ selection' = new
           /\ unrepaired' = (new.enabled /\ ~Deliverable(new.account, new.target))
  <2>1. unrepaired' \in BOOLEAN
    BY <1>1
  <2> QED BY <1>1, <2>1, OneWrite
<1>2. CASE UNCHANGED <<selection, unrepaired>>
  <2>1. /\ unrepaired' \in BOOLEAN /\ selection' \in Selections
        /\ selection'.target <= lastID.target
        /\ selection'.enabled =>
             \A y \in targets : y.id = selection'.target => y.account = selection'.account
    BY <1>2 DEF IMInv, RestOK, KnownTargets, CarriesOwn, OwnTarget
  <2> QED BY <2>1, OneWrite
<1> QED BY <1>1, <1>2 DEF UpdateIMDelivery

LEMMA WriteEnds ==
  ASSUME IMInv, NEW c \in Callers, NEW new \in Selections,
         UpdateIMDelivery(new), UNCHANGED <<storeVars, queue>>, Set(c, IdleCall),
         new.target = calls[c].target, new.account = calls[c].account,
         calls[c].target <= lastID.target, new.enabled => OwnTarget(calls[c])
  PROVE  IMInv'
<1>1. /\ IdleCall \in CallRecords /\ ArgsFit(IdleCall)
      /\ IdleCall.target <= lastID.target /\ ~Aims(IdleCall)
  BY IdleFits
<1>2. new.enabled => \A y \in targets : y.id = new.target => y.account = new.account
  BY DEF OwnTarget
<1> QED BY <1>1, <1>2, WriteGoesOn

LEMMA ClearEnds ==
  ASSUME IMInv, NEW c \in Callers, ClearIMDelivery, Done(c),
         UNCHANGED <<storeVars, queue>>
  PROVE  IMInv'
<1>1. /\ IdleCall \in CallRecords /\ ArgsFit(IdleCall) /\ Set(c, IdleCall)
      /\ IdleCall.target <= lastID.target /\ ~Aims(IdleCall)
  BY IdleFits DEF Done
<1>2. /\ unrepaired' \in BOOLEAN /\ selection' \in Selections
      /\ selection'.target <= lastID.target
      /\ selection'.enabled =>
           \A y \in targets : y.id = selection'.target => y.account = selection'.account
  <2>1. CASE selection' = NothingSelected /\ unrepaired' = FALSE
    <3>1. selection' \in Selections /\ selection'.target = 0
      BY <2>1 DEF NothingSelected, Selection, Selections, None
    <3>2. lastID.target \in Nat /\ \A y \in targets : y.id # 0
      BY BoundsAssumption DEF IMInv, TablesOK, Targets, TargetIDs
    <3>3. unrepaired' \in BOOLEAN
      BY <2>1
    <3>4. selection'.target <= lastID.target
      BY <3>1, <3>2
    <3>5. \A y \in targets : y.id # selection'.target
      BY <3>1, <3>2
    <3> QED BY ONLY <3>1, <3>3, <3>4, <3>5
  <2>2. CASE unrepaired' = TRUE /\ UNCHANGED selection
    BY <2>2 DEF IMInv, RestOK, KnownTargets, CarriesOwn, OwnTarget
  <2> QED BY <2>1, <2>2 DEF ClearIMDelivery
<1> QED BY <1>1, <1>2, OneWrite

-----------------------------------------------------------------------------

LEMMA ConfirmKeeps ==
  ASSUME IMInv, NEW r \in Requests,
         (\E l \in Logins : BeginConfirm(r, l)) \/ ConfirmStep(r)
  PROVE  IMInv'
<1> USE BoundsAssumption
<1>0. r \in Callers /\ calls[r] \in CallRecords /\ ArgsFit(calls[r])
      /\ lastID.target \in Nat
  BY DEF IMInv, CallsOK, TablesOK, Callers
<1>1. ASSUME NEW l \in Logins, BeginConfirm(r, l)
      PROVE  IMInv'
  <2> DEFINE k == Call("login", None, None, l)
  <2>1. /\ k \in CallRecords /\ ArgsFit(k) /\ k.target <= lastID.target
        /\ ~Aims(k)
    BY <1>0 DEF Call, CallRecords, Places, Args, None, ArgsFit, Aims
  <2>2. Set(r, k) /\ UNCHANGED <<storeVars, selection, queue, unrepaired>>
    BY <1>1 DEF BeginConfirm
  <2> HIDE DEF k
  <2> QED BY <1>0, <2>1, <2>2, Quiet
<1>2. CASE UpsertAccount(r)
  <2>1. TablesOK' /\ Keeps
    BY <1>2, UpsertAccountRow
  <2>2. calls[r].arg \in Logins
    BY <1>0, <1>2 DEF UpsertAccount, ArgsFit, At
  <2>3. PICK a \in AccountIDs : Set(r, Call("owner", a, None, calls[r].arg))
    <3>1. CASE \E x \in accounts : Set(r, Call("owner", x.id, None, calls[r].arg))
      BY <3>1 DEF IMInv, TablesOK, Accounts
    <3>2. CASE /\ lastID.account < MaxAccounts
               /\ lastID' = [lastID EXCEPT !.account = @ + 1]
               /\ Set(r, Call("owner", lastID'.account, None, calls[r].arg))
      <4>1. lastID'.account \in AccountIDs
        BY <3>2 DEF IMInv, TablesOK, AccountIDs
      <4> QED BY <3>2, <4>1
    <3> QED BY <1>2, <3>1, <3>2 DEF UpsertAccount
  <2> DEFINE k == Call("owner", a, None, calls[r].arg)
  <2>4. /\ k \in CallRecords /\ ArgsFit(k) /\ ~Aims(k) /\ k.target = 0
    BY <2>2 DEF Call, CallRecords, Places, Args, None, ArgsFit, Aims
  <2>5. k.target <= lastID'.target
    BY <2>1, <2>4 DEF TablesOK
  <2>6. Set(r, k) /\ UNCHANGED <<selection, queue>> /\ unrepaired' \in BOOLEAN
    BY <1>2, <2>3 DEF UpsertAccount, IMInv, RestOK
  <2> HIDE DEF k
  <2> QED BY <1>0, <2>1, <2>4, <2>5, <2>6, OneCall
<1>3. CASE ReadHasDefault(r)
  <2>1. PICK has \in BOOLEAN :
          Set(r, [calls[r] EXCEPT !.at = "ownerTarget",
                                  !.arg = [login |-> @, hasDefault |-> has]])
    BY <1>3 DEF ReadHasDefault
  <2> DEFINE g == [login |-> calls[r].arg, hasDefault |-> has]
             k == [calls[r] EXCEPT !.at = "ownerTarget", !.arg = g]
  <2>2. calls[r].arg \in Logins /\ calls[r].account \in AccountIDs
    BY <1>0, <1>3 DEF ReadHasDefault, ArgsFit, At
  <2>3. g \in LoginArgs
    BY <2>2 DEF LoginArgs
  <2>4. Set(r, k) /\ UNCHANGED <<storeVars, selection, queue, unrepaired>>
    BY <1>3, <2>1 DEF ReadHasDefault
  <2> HIDE DEF g
  <2>5. /\ k \in CallRecords /\ k.at = "ownerTarget" /\ k.arg = g
        /\ k.account = calls[r].account /\ k.target = calls[r].target
    BY <1>0, <2>3 DEF CallRecords, Places, Args
  <2> HIDE DEF k
  <2>6. ArgsFit(k) /\ ~Aims(k) /\ k.target <= lastID.target
    BY <1>0, <2>2, <2>3, <2>5 DEF ArgsFit, Aims, IMInv, KnownTargets
  <2> QED BY <1>0, <2>4, <2>5, <2>6, Quiet
<1>4. CASE UpsertOwnerTarget(r)
  <2>1. calls[r].account \in AccountIDs /\ calls[r].arg \in LoginArgs
    BY <1>0, <1>4 DEF UpsertOwnerTarget, ArgsFit, At
  <2>2. PICK t \in TargetIDs :
          /\ UpsertTargetRow(calls[r].account, Owner[calls[r].arg.login],
                             ~calls[r].arg.hasDefault, t)
          /\ Set(r, Call("seed?", calls[r].account, t, None))
    BY <1>4 DEF UpsertOwnerTarget
  <2>3. Owner[calls[r].arg.login] \in Users /\ (~calls[r].arg.hasDefault) \in BOOLEAN
    BY <2>1, OwnerAssumption DEF LoginArgs
  <2>4. /\ TablesOK' /\ Keeps /\ t <= lastID'.target
        /\ \A y \in targets' : y.id = t => y.account = calls[r].account
    <3>1. TablesOK /\ UNCHANGED accounts
      BY <1>4 DEF UpsertOwnerTarget, IMInv
    <3>2. PICK d \in BOOLEAN :
            UpsertTargetRow(calls[r].account, Owner[calls[r].arg.login], d, t)
      BY ONLY <2>2, <2>3
    <3> QED BY <2>1, <2>3, <3>1, <3>2, UpsertRow
  <2> DEFINE k == Call("seed?", calls[r].account, t, None)
  <2>5. /\ k \in CallRecords /\ ArgsFit(k) /\ k.target = t
        /\ k.account = calls[r].account
    BY <2>1 DEF Call, CallRecords, Places, Args, None, ArgsFit
  <2>6. Set(r, k) /\ UNCHANGED <<selection, queue>> /\ unrepaired' \in BOOLEAN
    BY <1>4, <2>2 DEF UpsertOwnerTarget, IMInv, RestOK
  <2> HIDE DEF k
  <2> QED BY <1>0, <2>4, <2>5, <2>6, OneCall
<1>5. CASE MaybeSeed(r)
  BY <1>0, <1>5, QuietGoto DEF MaybeSeed, At, Aims
<1>6. CASE Seed(r)
  <2> DEFINE new == Selection(FALSE, calls[r].account, calls[r].target)
  <2>1. /\ new \in Selections /\ new.target = calls[r].target
        /\ new.account = calls[r].account
    BY <1>0 DEF Selection, Selections, CallRecords
  <2>2. calls[r].target <= lastID.target /\ OwnTarget(calls[r])
    BY <1>0, <1>6 DEF Seed, At, IMInv, KnownTargets, CarriesOwn, Aims
  <2>3. /\ UpdateIMDelivery(new) /\ Set(r, IdleCall)
        /\ UNCHANGED <<storeVars, queue>>
    BY <1>6 DEF Seed, Done
  <2> HIDE DEF new
  <2> QED BY <1>0, <2>1, <2>2, <2>3, WriteEnds
<1> QED BY <1>1, <1>2, <1>3, <1>4, <1>5, <1>6 DEF ConfirmStep

LEMMA TargetsKeep ==
  ASSUME IMInv, NEW r \in Requests,
         \/ \E a \in AccountIDs, u \in Users, d \in BOOLEAN : BeginUpsertTarget(r, a, u, d)
         \/ \E x \in targets : BeginSetDefault(r, x) \/ BeginDeleteTarget(r, x)
         \/ \E a \in AccountIDs : DeleteAccount(r, a)
         \/ UpsertTarget(r) \/ SetDefaultTarget(r) \/ DeleteTarget(r)
         \/ RepairIsNeeded(r) \/ Repair(r)
  PROVE  IMInv'
<1> USE BoundsAssumption
<1>0. r \in Callers /\ calls[r] \in CallRecords /\ ArgsFit(calls[r])
      /\ lastID.target \in Nat /\ unrepaired \in BOOLEAN
  BY DEF IMInv, CallsOK, TablesOK, RestOK, Callers
<1>1. ASSUME NEW a \in AccountIDs, NEW u \in Users, NEW d \in BOOLEAN,
             BeginUpsertTarget(r, a, u, d)
      PROVE  IMInv'
  <2> DEFINE g == [user |-> u, setDefault |-> d]
             k == Call("target", a, None, g)
  <2>1. g \in TargetArgs
    BY DEF TargetArgs
  <2>2. Set(r, k) /\ UNCHANGED <<storeVars, selection, queue, unrepaired>>
    BY <1>1 DEF BeginUpsertTarget
  <2> HIDE DEF g
  <2>3. /\ k \in CallRecords /\ ArgsFit(k) /\ k.target <= lastID.target
        /\ ~Aims(k)
    BY <1>0, <2>1 DEF Call, CallRecords, Places, Args, None, ArgsFit, Aims
  <2> HIDE DEF k
  <2> QED BY <1>0, <2>2, <2>3, Quiet
<1>2. ASSUME NEW x \in targets, BeginSetDefault(r, x) \/ BeginDeleteTarget(r, x)
      PROVE  IMInv'
  <2>1. PICK p \in {"setDefault", "deleteTarget"} : Set(r, Call(p, x.account, x.id, None))
    BY <1>2 DEF BeginSetDefault, BeginDeleteTarget
  <2> DEFINE k == Call(p, x.account, x.id, None)
  <2>2. x.account \in AccountIDs /\ x.id \in TargetIDs /\ x.id <= lastID.target
    BY DEF IMInv, TablesOK, Targets
  <2>3. /\ k \in CallRecords /\ ArgsFit(k) /\ k.target <= lastID.target
        /\ ~Aims(k)
    BY <2>2 DEF Call, CallRecords, Places, Args, None, ArgsFit, Aims
  <2>4. Set(r, k) /\ UNCHANGED <<storeVars, selection, queue, unrepaired>>
    BY <1>2, <2>1 DEF BeginSetDefault, BeginDeleteTarget
  <2> HIDE DEF k
  <2> QED BY <1>0, <2>3, <2>4, Quiet
<1>3. ASSUME NEW a \in AccountIDs, DeleteAccount(r, a)
      PROVE  IMInv'
  <2> DEFINE k == Call("repair?", a, None, None)
  <2>1. TablesOK' /\ Keeps /\ UNCHANGED <<lastID, selection, queue, unrepaired>>
        /\ Set(r, k)
    BY <1>3, FewerRows DEF DeleteAccount
  <2>2. /\ k \in CallRecords /\ ArgsFit(k) /\ k.target <= lastID.target
        /\ ~Aims(k)
    BY <1>0 DEF Call, CallRecords, Places, Args, None, ArgsFit, Aims
  <2> HIDE DEF k
  <2> QED BY <1>0, <2>1, <2>2, OneCall
<1>4. CASE UpsertTarget(r)
  <2>1. calls[r].account \in AccountIDs /\ calls[r].arg \in TargetArgs
    BY <1>0, <1>4 DEF UpsertTarget, ArgsFit, At
  <2>2. calls[r].arg.user \in Users /\ calls[r].arg.setDefault \in BOOLEAN
    BY <2>1 DEF TargetArgs
  <2>3. PICK t \in TargetIDs :
          UpsertTargetRow(calls[r].account, calls[r].arg.user, calls[r].arg.setDefault, t)
    BY <1>4 DEF UpsertTarget
  <2>4. TablesOK /\ UNCHANGED accounts
    BY <1>4 DEF UpsertTarget, IMInv
  <2>5. TablesOK' /\ Keeps
    BY <2>1, <2>2, <2>3, <2>4, UpsertRow
  <2>6. Set(r, IdleCall) /\ UNCHANGED <<selection, queue, unrepaired>>
    BY <1>4 DEF UpsertTarget, Done
  <2> QED BY <1>0, <2>5, <2>6, CallEnds
<1>5. CASE SetDefaultTarget(r)
  <2>1. TablesOK' /\ Keeps
    BY <1>5, SetDefaultRows
  <2>2. Set(r, IdleCall) /\ UNCHANGED <<selection, queue, unrepaired>>
    BY <1>5 DEF SetDefaultTarget, Done
  <2> QED BY <1>0, <2>1, <2>2, CallEnds
<1>6. CASE DeleteTarget(r)
  <2>1. TablesOK' /\ Keeps
    BY <1>6, FewerRows DEF DeleteTarget
  <2> DEFINE k == [calls[r] EXCEPT !.at = "repair?"]
  <2>2. /\ Set(r, k)
        /\ UNCHANGED <<lastID, selection, queue, unrepaired>>
    BY <1>0, <1>6, GotoSets DEF DeleteTarget, Places
  <2>3. /\ k \in CallRecords /\ ArgsFit(k) /\ k.target <= lastID.target
    BY <1>0, GoesOn
  <2>4. ~Aims(k)
    BY <1>0 DEF CallRecords, Aims
  <2> HIDE DEF k
  <2> QED BY <1>0, <2>1, <2>2, <2>3, <2>4, OneCall
<1>7. CASE RepairIsNeeded(r)
  BY <1>0, <1>7, QuietGoto DEF RepairIsNeeded
<1>8. CASE Repair(r)
  BY <1>0, <1>8, ClearEnds DEF Repair
<1> QED BY <1>1, <1>2, <1>3, <1>4, <1>5, <1>6, <1>7, <1>8

LEMMA SettingsKeep ==
  ASSUME IMInv, NEW r \in Requests,
         \/ \E a \in AccountIDs \cup {None}, t \in TargetIDs \cup {None} :
              BeginDisable(r, a, t)
         \/ \E a \in AccountIDs, t \in TargetIDs : BeginUpdate(r, a, t)
         \/ BeginReset(r)
         \/ UpdateDeliveryConfig(r) \/ ResetSettings(r)
  PROVE  IMInv'
<1> USE BoundsAssumption
<1>0. r \in Callers /\ calls[r] \in CallRecords /\ ArgsFit(calls[r])
      /\ lastID.target \in Nat /\ unrepaired \in BOOLEAN
  BY DEF IMInv, CallsOK, TablesOK, RestOK, Callers
<1>1. ASSUME NEW x \in targets, Set(r, Call("update", x.account, x.id, TRUE)),
             UNCHANGED <<storeVars, selection, queue, unrepaired>>
      PROVE  IMInv'
  <2> DEFINE k == Call("update", x.account, x.id, TRUE)
  <2>1. x.account \in AccountIDs /\ x.id \in TargetIDs /\ x.id <= lastID.target
    BY DEF IMInv, TablesOK, Targets
  <2>2. /\ k \in CallRecords /\ ArgsFit(k) /\ k.target = x.id /\ k.account = x.account
    BY <2>1 DEF Call, CallRecords, Places, Args, None, ArgsFit
  <2>3. \A y \in targets : y.id = x.id => y.account = x.account
    BY DEF IMInv, TablesOK, TablesAreSound
  <2>4. k.target <= lastID.target /\ OwnTarget(k)
    BY <2>1, <2>2, <2>3 DEF OwnTarget
  <2>5. Set(r, k)
    BY <1>1
  <2> HIDE DEF k
  <2> QED BY <1>0, <1>1, <2>2, <2>4, <2>5, Quiet
<1>2. ASSUME NEW a \in AccountIDs \cup {None}, NEW t \in TargetIDs \cup {None},
             BeginDisable(r, a, t)
      PROVE  IMInv'
  <2> DEFINE k == Call("update", a, t, FALSE)
  <2>1. /\ k \in CallRecords /\ ArgsFit(k) /\ k.target <= lastID.target /\ ~Aims(k)
    BY <1>2 DEF BeginDisable, Call, CallRecords, Places, Args, ArgsFit, Aims
  <2>2. Set(r, k) /\ UNCHANGED <<storeVars, selection, queue, unrepaired>>
    BY <1>2 DEF BeginDisable
  <2> HIDE DEF k
  <2> QED BY <1>0, <2>1, <2>2, Quiet
<1>3. ASSUME NEW a \in AccountIDs, NEW t \in TargetIDs, BeginUpdate(r, a, t)
      PROVE  IMInv'
  BY <1>1, <1>3 DEF BeginUpdate, Deliverable
<1>4. CASE BeginReset(r)
  <2> DEFINE k == [calls[r] EXCEPT !.at = "resetSettings"]
  <2>1. TablesOK' /\ Keeps
    BY <1>4, FewerRows DEF BeginReset
  <2>2. Set(r, k) /\ UNCHANGED <<lastID, selection, queue, unrepaired>>
    BY <1>0, <1>4, GotoSets DEF BeginReset, Places
  <2>3. /\ k \in CallRecords /\ ArgsFit(k) /\ k.target <= lastID.target
    BY <1>0, GoesOn
  <2>4. ~Aims(k)
    BY <1>0 DEF CallRecords, Aims
  <2> HIDE DEF k
  <2> QED BY <1>0, <2>1, <2>2, <2>3, <2>4, OneCall
<1>5. CASE UpdateDeliveryConfig(r)
  <2>1. /\ calls[r].arg \in BOOLEAN /\ calls[r].target <= lastID.target
        /\ calls[r].arg = TRUE => OwnTarget(calls[r])
    BY <1>0, <1>5 DEF UpdateDeliveryConfig, At, ArgsFit, IMInv, KnownTargets, CarriesOwn,
                      Aims
  <2> DEFINE new == Selection(calls[r].arg, calls[r].account, calls[r].target)
  <2>2. /\ new \in Selections /\ new.target = calls[r].target
        /\ new.account = calls[r].account
        /\ new.enabled => OwnTarget(calls[r])
    BY <1>0, <2>1 DEF Selection, Selections, CallRecords
  <2>3. /\ UpdateIMDelivery(new) /\ Set(r, IdleCall)
        /\ UNCHANGED <<storeVars, queue>>
    BY <1>5 DEF UpdateDeliveryConfig, Done
  <2> HIDE DEF new
  <2> QED BY <1>0, <2>1, <2>2, <2>3, WriteEnds
<1>6. CASE ResetSettings(r)
  BY <1>0, <1>6, ClearEnds DEF ResetSettings
<1> QED BY <1>2, <1>3, <1>4, <1>5, <1>6

LEMMA SendsKeep ==
  ASSUME IMInv, NEW r \in Requests,
         SendStep(r)
  PROVE  IMInv'
<1> USE BoundsAssumption
<1>0. r \in Callers /\ calls[r] \in CallRecords /\ ArgsFit(calls[r])
      /\ lastID.target \in Nat /\ selection \in Selections
  BY DEF IMInv, CallsOK, TablesOK, RestOK, Callers
<1>1. CASE BeginSend(r)
  <2>1. UNCHANGED <<storeVars, selection, queue, unrepaired>>
    BY <1>1 DEF BeginSend
  <2>2. CASE Set(r, Call("check", selection.account, selection.target, None))
    <3> DEFINE k == Call("check", selection.account, selection.target, None)
    <3>1. /\ k \in CallRecords /\ ArgsFit(k) /\ k.target = selection.target /\ ~Aims(k)
      BY <1>0 DEF Call, CallRecords, Places, Args, None, ArgsFit, Selections, Aims
    <3>2. k.target <= lastID.target
      BY <3>1 DEF IMInv, KnownTargets
    <3>3. Set(r, k)
      BY <2>2
    <3> HIDE DEF k
    <3> QED BY <1>0, <2>1, <3>1, <3>2, <3>3, Quiet
  <2>3. CASE Set(r, Call("fallback", selection.account, None, None))
    <3> DEFINE k == Call("fallback", selection.account, None, None)
    <3>1. /\ k \in CallRecords /\ ArgsFit(k) /\ k.target <= lastID.target
          /\ ~Aims(k)
      BY <1>0 DEF Call, CallRecords, Places, Args, None, ArgsFit, Selections, Aims
    <3>2. Set(r, k)
      BY <2>3
    <3> HIDE DEF k
    <3> QED BY <1>0, <2>1, <3>1, <3>2, Quiet
  <2> QED BY <1>1, <2>2, <2>3 DEF BeginSend
<1>2. CASE FindFallback(r)
  <2>1. UNCHANGED <<storeVars, selection, queue, unrepaired>>
    BY <1>2 DEF FindFallback
  <2>2. CASE Done(r)
    BY <1>0, <2>1, <2>2, QuietGoto
  <2>3. ASSUME NEW x \in targets, Set(r, Call("persist", x.account, x.id, None))
        PROVE  IMInv'
    <3> DEFINE k == Call("persist", x.account, x.id, None)
    <3>1. x.account \in AccountIDs /\ x.id \in TargetIDs /\ x.id <= lastID.target
      BY DEF IMInv, TablesOK, Targets
    <3>2. /\ k \in CallRecords /\ ArgsFit(k) /\ k.target = x.id /\ k.account = x.account
      BY <3>1 DEF Call, CallRecords, Places, Args, None, ArgsFit
    <3>3. \A y \in targets : y.id = x.id => y.account = x.account
      BY DEF IMInv, TablesOK, TablesAreSound
    <3>4. k.target <= lastID.target /\ OwnTarget(k)
      BY <3>1, <3>2, <3>3 DEF OwnTarget
    <3>5. Set(r, k)
      BY <2>3
    <3> HIDE DEF k
    <3> QED BY <1>0, <2>1, <3>2, <3>4, <3>5, Quiet
  <2> QED BY <1>2, <2>2, <2>3 DEF FindFallback
<1>3. CASE PersistFallback(r)
  <2> DEFINE new == Selection(FALSE, calls[r].account, calls[r].target)
             k   == [calls[r] EXCEPT !.at = "resolve"]
  <2>1. Aims(calls[r])
    BY <1>3 DEF PersistFallback, At, Aims
  <2>2. calls[r].target <= lastID.target /\ OwnTarget(calls[r])
    BY <1>0, <2>1 DEF IMInv, KnownTargets, CarriesOwn
  <2>3. /\ new \in Selections /\ new.target = calls[r].target
        /\ new.account = calls[r].account
    BY <1>0 DEF Selection, Selections, CallRecords
  <2>4. UpdateIMDelivery(new) /\ UNCHANGED <<storeVars, queue>>
    BY <1>3 DEF PersistFallback, PersistedFallback
  <2>5. Set(r, k)
    BY <1>0, <1>3, GotoSets DEF PersistFallback, Places
  <2>6. /\ k \in CallRecords /\ ArgsFit(k) /\ k.target <= lastID.target
        /\ Aims(k) => OwnTarget(k)
    BY <1>0, <2>1, GoesOn
  <2> HIDE DEF new, k
  <2>7. /\ \A y \in targets : y.id = new.target => y.account = new.account
        /\ Aims(k) => \A y \in targets : y.id = k.target => y.account = k.account
        /\ new.target <= lastID.target
    BY <2>2, <2>3, <2>6 DEF OwnTarget
  <2> QED BY <1>0, <2>3, <2>4, <2>5, <2>6, <2>7, WriteGoesOn
<1>4. CASE CheckSelection(r)
  <2>1. UNCHANGED <<storeVars, selection, queue, unrepaired>>
    BY <1>4 DEF CheckSelection
  <2>2. CASE Deliverable(calls[r].account, calls[r].target) /\ Goto(r, "resolve")
    <3> DEFINE k == [calls[r] EXCEPT !.at = "resolve"]
    <3>1. /\ k \in CallRecords /\ k.at = "resolve" /\ k.account = calls[r].account
          /\ k.target = calls[r].target
      BY <1>0 DEF CallRecords, Places
    <3>2. Set(r, k)
      BY <1>0, <2>2, GotoSets DEF Places
    <3> HIDE DEF k
    <3>3. ArgsFit(k) /\ k.target <= lastID.target
      BY <1>0, <3>1 DEF ArgsFit, IMInv, KnownTargets
    <3>4. OwnTarget(k)
      BY <2>2, <3>1 DEF OwnTarget, Deliverable, IMInv, TablesOK, TablesAreSound
    <3> QED BY <1>0, <2>1, <3>1, <3>2, <3>3, <3>4, Quiet
  <2>3. CASE Set(r, Call("fallback", calls[r].account, None, None))
    <3> DEFINE k == Call("fallback", calls[r].account, None, None)
    <3>1. /\ k \in CallRecords /\ ArgsFit(k) /\ k.target <= lastID.target /\ ~Aims(k)
      BY <1>0 DEF Call, CallRecords, Places, Args, None, ArgsFit, Aims
    <3>2. Set(r, k)
      BY <2>3
    <3> HIDE DEF k
    <3> QED BY <1>0, <2>1, <3>1, <3>2, Quiet
  <2> QED BY <1>4, <2>2, <2>3 DEF CheckSelection
<1> QED BY <1>1, <1>2, <1>3, <1>4 DEF SendStep

LEMMA DeliveryKeeps ==
  ASSUME IMInv,
         (\E c \in Callers : Resolve(c) \/ Send(c)) \/ MirrorText \/ TakeText \/ Restart
  PROVE  IMInv'
<1> USE BoundsAssumption
<1>1. ASSUME NEW c \in Callers, Resolve(c) \/ Send(c)
      PROVE  IMInv'
  BY <1>1, QuietGoto DEF Resolve, Send, At, Aims
<1>2. CASE MirrorText
  <2>1. UNCHANGED <<storeVars, selection, calls, unrepaired>>
        /\ queue' = Append(queue, selection) /\ Len(queue) < QueueCap
        /\ selection.enabled
    BY <1>2 DEF MirrorText, QueueHasRoom
  <2>2. queue \in Seq(Selections) /\ selection \in Selections
    BY DEF IMInv, RestOK
  <2>3. /\ queue' \in Seq(Selections) /\ Len(queue') <= QueueCap
        /\ \A i \in DOMAIN queue' : queue'[i] = selection \/
                                    (i \in DOMAIN queue /\ queue'[i] = queue[i])
    BY <2>1, <2>2
  <2>4. RestOK'
    BY <2>1, <2>3 DEF IMInv, RestOK
  <2>5. \A i \in DOMAIN queue' : queue'[i].target <= lastID.target /\ OwnTarget(queue'[i])
    BY <2>1, <2>3 DEF IMInv, KnownTargets, CarriesOwn
  <2>6. TablesOK' /\ CallsOK'
    BY <2>1, FewerRows DEF IMInv, CallsOK, storeVars
  <2>7. KnownTargets'
    BY <2>1, <2>5 DEF IMInv, KnownTargets, storeVars
  <2>8. CarriesOwn'
    BY <2>1, <2>5 DEF IMInv, CarriesOwn, OwnTarget, storeVars
  <2> QED BY <2>4, <2>6, <2>7, <2>8 DEF IMInv
<1>3. CASE TakeText
  <2>1. /\ queue # << >> /\ queue' = Tail(queue)
        /\ UNCHANGED <<storeVars, selection, unrepaired>>
        /\ Set("loop", Call("resolve", Head(queue).account, Head(queue).target, None))
    BY <1>3 DEF TakeText
  <2>2. queue \in Seq(Selections) /\ Len(queue) <= QueueCap
    BY DEF IMInv, RestOK
  <2> DEFINE h == queue[1]
             k == Call("resolve", h.account, h.target, None)
  <2>3. 1 \in DOMAIN queue /\ Head(queue) = queue[1] /\ h \in Selections
    BY <2>1, <2>2
  <2>4. h.target <= lastID.target /\ OwnTarget(h)
    BY <2>3 DEF IMInv, KnownTargets, CarriesOwn
  <2>5. Set("loop", k)
    BY <2>1, <2>3
  <2> HIDE DEF h
  <2>6. /\ k \in CallRecords /\ ArgsFit(k) /\ k.target = h.target
        /\ k.account = h.account
    BY <2>3 DEF Call, CallRecords, Places, Args, None, ArgsFit, Selections
  <2> HIDE DEF k
  <2>7. /\ queue' \in Seq(Selections) /\ Len(queue') <= QueueCap
        /\ \A i \in DOMAIN queue' : i + 1 \in DOMAIN queue /\ queue'[i] = queue[i + 1]
    BY <2>1, <2>2
  <2>8. TablesOK' /\ Keeps
    BY <2>1, FewerRows DEF storeVars
  <2>9. /\ CallsOK'
        /\ \A d \in Callers : /\ calls'[d].target <= lastID'.target
                              /\ Aims(calls'[d]) => OwnTarget(calls[d])'
    <3>1. "loop" \in Callers
      BY DEF Callers
    <3>2. /\ k.target <= lastID'.target
          /\ \A y \in targets' : y.id = k.target => y.account = k.account
      BY <2>1, <2>4, <2>6 DEF storeVars, OwnTarget
    <3> QED BY <2>5, <2>6, <2>8, <3>1, <3>2, CallsKept
  <2>10. /\ selection'.target <= lastID'.target
         /\ selection'.enabled => OwnTarget(selection)'
    BY <2>1, <2>8, SelectionKept
  <2>11. \A i \in DOMAIN queue' : queue'[i].target <= lastID'.target /\ OwnTarget(queue[i])'
    BY <2>1, <2>7 DEF IMInv, KnownTargets, CarriesOwn, OwnTarget, storeVars
  <2>12. RestOK'
    BY <2>1, <2>7 DEF IMInv, RestOK
  <2> QED BY <2>8, <2>9, <2>10, <2>11, <2>12 DEF IMInv, KnownTargets, CarriesOwn
<1>4. CASE Restart
  <2>1. /\ queue' = << >> /\ calls' = [c \in Callers |-> IdleCall]
        /\ UNCHANGED <<storeVars, selection>>
    BY <1>4 DEF Restart
  <2>2. IdleCall \in CallRecords /\ ArgsFit(IdleCall) /\ ~Aims(IdleCall)
        /\ IdleCall.target <= lastID.target
    BY IdleFits
  <2>3. TablesOK' /\ CallsOK'
    BY <2>1, <2>2, FewerRows DEF CallsOK, storeVars
  <2>4. RestOK'
    <3>1. queue' \in Seq(Selections) /\ Len(queue') <= QueueCap
      BY <2>1
    <3>2. unrepaired' \in BOOLEAN
      BY <1>4 DEF Restart
    <3> QED BY <2>1, <3>1, <3>2 DEF IMInv, RestOK
  <2>5. KnownTargets'
    BY <2>1, <2>2 DEF IMInv, KnownTargets, storeVars
  <2>6. CarriesOwn'
    BY <2>1, <2>2 DEF IMInv, CarriesOwn, OwnTarget, storeVars
  <2> QED BY <2>3, <2>4, <2>5, <2>6 DEF IMInv
<1> QED BY <1>1, <1>2, <1>3, <1>4

LEMMA IMNextOK ==
  ASSUME IMInv, [Next]_imVars
  PROVE  IMInv'
<1>1. CASE UNCHANGED imVars
  BY <1>1 DEF imVars, IMInv, TablesOK, TablesAreSound, RestOK, CallsOK, KnownTargets,
              CarriesOwn, OwnTarget
<1>2. ASSUME NEW r \in Requests, BeginRequest(r) \/ RequestStep(r)
      PROVE  IMInv'
  BY <1>2, ConfirmKeeps, TargetsKeep, SettingsKeep DEF BeginRequest, RequestStep
<1>3. ASSUME NEW r \in Requests, SendStep(r)
      PROVE  IMInv'
  BY <1>3, SendsKeep
<1> QED BY <1>1, <1>2, <1>3, DeliveryKeeps DEF Next

-----------------------------------------------------------------------------

\* The invariant holds of the gateway, whatever its requests, failed saves,
\* resets and restarts do, and whatever pair is stored in a selection that is
\* off.
THEOREM IMInvariance == Spec => []IMInv
<1>1. Init => IMInv
  BY IMInitOK
<1>2. IMInv /\ [Next]_imVars => IMInv'
  BY IMNextOK
<1> QED BY <1>1, <1>2, PTL DEF Spec

\* The tables, the settings, the queue of Service.deliveries and the calls keep
\* their types; the IDs in use have been handed out by nextID.
THEOREM IMTypes == Spec => []IMTypeOK
<1>1. IMInv => IMTypeOK
  BY DEF IMInv, TablesOK, RestOK, CallsOK, CallRecords, IMTypeOK
<1> QED BY <1>1, IMInvariance, PTL

\* An ID names one row, a login one account, a user one target of an account,
\* and an account has one default target at most, whatever the order of
\* logins, upserts, deletions and changes of the default (im/store.go).
THEOREM TablesInOrder == Spec => []TablesAreSound
<1>1. IMInv => TablesAreSound
  BY DEF IMInv, TablesOK
<1> QED BY <1>1, IMInvariance, PTL

\* Nothing is delivered across accounts, although UpdateDeliveryConfig stores
\* any pair in a selection that is off: a mirror that is on, what waits in its
\* queue, and what a call has found and is about to save or to send to is a
\* target of the account it goes with, or no target any more (im/service.go).
THEOREM DeliveriesStayInAccount == Spec => []NeverCrossesAccounts
<1>1. IMInv => NeverCrossesAccounts
  BY DEF IMInv, CarriesOwn, OwnTarget, Aims, NeverCrossesAccounts
<1> QED BY <1>1, IMInvariance, PTL

-----------------------------------------------------------------------------
(* The mirror.  The last property needs more: what has lost its target is    *)
(* about to be repaired by one of the requests.                              *)

\* The step of a request that is to repair the selection.
Pending(k) ==
  \/ k.at \in {"repair", "resetSettings"}
  \/ k.at = "repair?" /\ RemovedSelected(k.account, k.target)

\* A request that deletes a target knows which.
CallFits(k) == k.at = "deleteTarget" => k.target # None

Served == selection.enabled => Deliverable(selection.account, selection.target)

MirrorInv ==
  /\ Served \/ unrepaired \/ \E r \in Requests : Pending(calls[r])
  /\ \A r \in Requests : CallFits(calls[r])

\* A mirror moves by the update of a request alone: every other write of the
\* settings, a seed, a fallback, a repair or a reset, switches it off
\* (im/service.go, settings/store.go).
THEOREM MirrorStays == Spec => MirrorNeverMoves
<1>1. ASSUME [Next]_imVars, selection'.enabled, selection' # selection
      PROVE  \E r \in Requests : At(r, "update") /\ calls[r].arg
  <2>1. \A a, t : ~Selection(FALSE, a, t).enabled
    BY DEF Selection
  <2>2. ~NothingSelected.enabled
    BY DEF NothingSelected, Selection
  <2>3. PICK c \in Callers :
          \/ c \in Requests /\ (Seed(c) \/ Repair(c) \/ ResetSettings(c))
          \/ c \in Requests /\ UpdateDeliveryConfig(c)
          \/ PersistFallback(c)
    <3>1. ASSUME NEW r \in Requests, BeginRequest(r) \/ RequestStep(r)
          PROVE  Seed(r) \/ Repair(r) \/ ResetSettings(r) \/ UpdateDeliveryConfig(r)
      <4>1. ~BeginRequest(r)
        BY <1>1 DEF BeginRequest, BeginConfirm, BeginUpsertTarget, BeginSetDefault,
                    BeginDeleteTarget, BeginDisable, BeginUpdate, DeleteAccount, BeginReset
      <4>2. \/ Seed(r) \/ Repair(r) \/ ResetSettings(r) \/ UpdateDeliveryConfig(r)
            \/ UNCHANGED selection
        BY <3>1, <4>1 DEF RequestStep, ConfirmStep, UpsertAccount, ReadHasDefault,
                    UpsertOwnerTarget, MaybeSeed, UpsertTarget, SetDefaultTarget,
                    DeleteTarget, RepairIsNeeded
      <4> QED BY <1>1, <4>2
    <3>2. ASSUME NEW r \in Requests, SendStep(r)
          PROVE  PersistFallback(r)
      BY <1>1, <3>2 DEF SendStep, BeginSend, CheckSelection, FindFallback
    <3>3. ASSUME NEW c \in Callers, Resolve(c) \/ Send(c)
          PROVE  FALSE
      BY <1>1, <3>3 DEF Resolve, Send
    <3>4. ~MirrorText /\ ~TakeText /\ ~Restart /\ ~UNCHANGED imVars
      BY <1>1 DEF MirrorText, TakeText, Restart, imVars
    <3> QED BY <1>1, <3>1, <3>2, <3>3, <3>4 DEF Next, Callers
  <2>4. CASE Seed(c) \/ PersistFallback(c)
    BY <1>1, <2>1, <2>4 DEF Seed, PersistFallback, PersistedFallback, UpdateIMDelivery
  <2>5. CASE Repair(c) \/ ResetSettings(c)
    BY <1>1, <2>2, <2>5 DEF Repair, ResetSettings, ClearIMDelivery
  <2>6. CASE c \in Requests /\ UpdateDeliveryConfig(c)
    <3>1. At(c, "update")
          /\ selection' = Selection(calls[c].arg, calls[c].account, calls[c].target)
      BY <1>1, <2>6 DEF UpdateDeliveryConfig, UpdateIMDelivery
    <3>2. calls[c].arg
      BY <1>1, <3>1 DEF Selection
    <3> QED BY <2>6, <3>1, <3>2
  <2> QED BY <2>3, <2>4, <2>5, <2>6
<1>2. [Next]_imVars =>
        [selection'.enabled /\ selection' # selection =>
           \E r \in Requests : At(r, "update") /\ calls[r].arg]_imVars
  BY <1>1
<1> QED BY <1>2, PTL DEF Spec, MirrorNeverMoves

LEMMA MirrorInitOK == ASSUME Init PROVE MirrorInv
<1> USE DEF Init
<1>1. Served
  BY DEF Served, NothingSelected, Selection
<1>2. \A r \in Requests : calls[r].at = "idle"
  BY DEF Callers, IdleCall, Call
<1> QED BY <1>1, <1>2 DEF MirrorInv, CallFits

\* Store.UpsertTarget removes no target.
LEMMA UpsertGrows ==
  ASSUME TablesOK, NEW a \in AccountIDs, NEW u \in Users,
         NEW d \in BOOLEAN, NEW t \in TargetIDs, UpsertTargetRow(a, u, d, t)
  PROVE  \A x \in targets : \E y \in targets' : y.id = x.id /\ y.account = x.account
<1>1. PICK T \in SUBSET Targets :
        /\ targets' = T \/ targets' = ClearOtherDefaults(T, a, t)
        /\ \A x \in targets : \E y \in T : y.id = x.id /\ y.account = x.account
  <2>1. CASE \E x \in targets :
               LET new == [x EXCEPT !.isDefault = @ \/ d]
               IN  targets' = IF new.isDefault
                              THEN ClearOtherDefaults((targets \ {x}) \cup {new}, a, t)
                              ELSE targets
    <3>1. PICK x \in targets :
            LET new == [x EXCEPT !.isDefault = @ \/ d]
            IN  targets' = IF new.isDefault
                           THEN ClearOtherDefaults((targets \ {x}) \cup {new}, a, t)
                           ELSE targets
      BY <2>1
    <3> DEFINE new == [x EXCEPT !.isDefault = @ \/ d]
               T   == (targets \ {x}) \cup {new}
    <3>2. x \in Targets
      BY DEF TablesOK
    <3>3. new \in Targets /\ new.id = x.id /\ new.account = x.account
      BY <3>2 DEF Targets
    <3>4. targets' = targets \/ targets' = ClearOtherDefaults(T, a, t)
      BY <3>1
    <3> HIDE DEF new
    <3>5. T \in SUBSET Targets /\ targets \in SUBSET Targets
      BY <3>3 DEF TablesOK
    <3>6. \A z \in targets : \E y \in T : y.id = z.id /\ y.account = z.account
      BY <3>3
    <3> HIDE DEF T
    <3> QED BY <3>4, <3>5, <3>6
  <2>2. CASE LET new == [id |-> t, account |-> a, user |-> u, isDefault |-> d]
             IN  targets' = IF d THEN ClearOtherDefaults(targets \cup {new}, a, t)
                            ELSE targets \cup {new}
    <3> DEFINE new == [id |-> t, account |-> a, user |-> u, isDefault |-> d]
               T   == targets \cup {new}
    <3>1. new \in Targets
      BY DEF Targets
    <3>2. targets' = T \/ targets' = ClearOtherDefaults(T, a, t)
      BY <2>2
    <3> HIDE DEF new
    <3>3. T \in SUBSET Targets /\ targets \subseteq T
      BY <3>1 DEF TablesOK
    <3> HIDE DEF T
    <3> QED BY <3>2, <3>3
  <2> QED BY <2>1, <2>2 DEF UpsertTargetRow
<1>2. \A x \in T : \E y \in targets' : y.id = x.id /\ y.account = x.account
  <2>1. CASE targets' = T
    BY <2>1
  <2>2. CASE targets' = ClearOtherDefaults(T, a, t)
    <3> TAKE x \in T
    <3> DEFINE y == IF x.account = a /\ x.id # t
                    THEN [x EXCEPT !.isDefault = FALSE] ELSE x
    <3>1. y \in targets'
      BY <2>2 DEF ClearOtherDefaults
    <3>2. y.id = x.id /\ y.account = x.account
      BY DEF Targets
    <3> HIDE DEF y
    <3> QED BY <3>1, <3>2
  <2> QED BY <1>1, <2>1, <2>2
<1> QED
  <2> TAKE x \in targets
  <2>1. PICK z \in T : z.id = x.id /\ z.account = x.account
    BY <1>1
  <2>2. PICK y \in targets' : y.id = z.id /\ y.account = z.account
    BY <1>2
  <2> QED BY <2>1, <2>2

\* One call moves, and the settings stay as they are.
LEMMA MirrorMove ==
  ASSUME IMInv, MirrorInv, UNCHANGED <<selection, unrepaired>>,
         NEW c \in Callers, NEW k, Set(c, k),
         c \in Requests => CallFits(k) /\ (Pending(calls[c]) => Pending(k)),
         Served => Served' \/ (c \in Requests /\ Pending(k))
  PROVE  MirrorInv'
<1>1. \A d \in Callers : calls'[d] = IF d = c THEN k ELSE calls[d]
  BY DEF IMInv, CallsOK, Set
<1>2. Requests \subseteq Callers
  BY DEF Callers
<1>3. \A r \in Requests : CallFits(calls'[r])
  BY <1>1, <1>2 DEF MirrorInv
<1>4. \A r \in Requests : CallFits(calls[r])'
  BY <1>3 DEF CallFits
<1>5. ASSUME NEW r \in Requests, Pending(calls'[r])
      PROVE  Pending(calls[r])'
  BY <1>5 DEF Pending, RemovedSelected
<1>6. Served' \/ unrepaired' \/ \E r \in Requests : Pending(calls'[r])
  <2>1. CASE Served
    BY <1>1, <1>2, <2>1
  <2>2. CASE unrepaired
    BY <2>2
  <2>3. ASSUME NEW r \in Requests, Pending(calls[r])
        PROVE  Pending(calls'[r])
    BY <1>1, <1>2, <2>3
  <2> QED BY <2>1, <2>2, <2>3 DEF MirrorInv
<1> QED BY <1>4, <1>5, <1>6 DEF MirrorInv

\* The same, with tables that only grow.
LEMMA MirrorGrows ==
  ASSUME IMInv, MirrorInv, UNCHANGED <<selection, unrepaired>>,
         accounts \subseteq accounts',
         \A x \in targets : \E y \in targets' : y.id = x.id /\ y.account = x.account,
         NEW c \in Callers, NEW k, Set(c, k),
         c \in Requests => CallFits(k) /\ (Pending(calls[c]) => Pending(k))
  PROVE  MirrorInv'
<1>1. Served => Served'
  BY DEF Served, Deliverable, AccountExists
<1> QED BY <1>1, MirrorMove

\* The same, with tables that do not change.
LEMMA MirrorQuiet ==
  ASSUME IMInv, MirrorInv, UNCHANGED <<accounts, targets, selection, unrepaired>>,
         NEW c \in Callers, NEW k, Set(c, k),
         c \in Requests => CallFits(k) /\ (Pending(calls[c]) => Pending(k))
  PROVE  MirrorInv'
<1>1. Served => Served'
  BY DEF Served, Deliverable, AccountExists
<1> QED BY <1>1, MirrorMove

\* The settings are written.
LEMMA MirrorWrite ==
  ASSUME IMInv, MirrorInv, NEW c \in Callers, NEW k, Set(c, k),
         c \in Requests => CallFits(k), unrepaired' \/ Served'
  PROVE  MirrorInv'
<1>1. \A d \in Callers : calls'[d] = IF d = c THEN k ELSE calls[d]
  BY DEF IMInv, CallsOK, Set
<1>2. \A r \in Requests : CallFits(calls'[r])
  BY <1>1 DEF MirrorInv, Callers
<1>3. \A r \in Requests : CallFits(calls[r])'
  BY <1>2 DEF CallFits
<1> QED BY <1>3 DEF MirrorInv

LEMMA MirrorUpdate ==
  ASSUME IMInv, MirrorInv, UNCHANGED <<accounts, targets>>,
         NEW c \in Callers, NEW k, Set(c, k), c \in Requests => CallFits(k),
         ~Pending(calls[c]), NEW new, UpdateIMDelivery(new)
  PROVE  MirrorInv'
<1>1. CASE /\ selection' = new
           /\ unrepaired' = (new.enabled /\ ~Deliverable(new.account, new.target))
  <2>1. unrepaired' \/ Served'
    BY <1>1 DEF Served, Deliverable, AccountExists
  <2> QED BY <2>1, MirrorWrite
<1>2. CASE UNCHANGED <<selection, unrepaired>>
  BY <1>2, MirrorQuiet
<1> QED BY <1>1, <1>2 DEF UpdateIMDelivery

LEMMA MirrorClear ==
  ASSUME IMInv, MirrorInv, NEW c \in Callers, Done(c), ClearIMDelivery
  PROVE  MirrorInv'
<1>1. Set(c, IdleCall) /\ CallFits(IdleCall)
  BY DEF Done, IdleCall, Call, CallFits
<1>2. unrepaired' \/ Served'
  BY DEF ClearIMDelivery, NothingSelected, Selection, Served
<1> QED BY <1>1, <1>2, MirrorWrite

LEMMA MirrorConfirm ==
  ASSUME IMInv, MirrorInv, NEW r \in Requests,
         (\E l \in Logins : BeginConfirm(r, l)) \/ ConfirmStep(r)
  PROVE  MirrorInv'
<1>0. r \in Callers /\ calls[r] \in CallRecords /\ ArgsFit(calls[r])
  BY DEF IMInv, CallsOK, Callers
<1>1. ASSUME NEW l \in Logins, BeginConfirm(r, l)
      PROVE  MirrorInv'
  <2> DEFINE k == Call("login", None, None, l)
  <2>1. CallFits(k) /\ ~Pending(calls[r]) /\ Set(r, k)
        /\ UNCHANGED <<accounts, targets, selection, unrepaired>>
    BY <1>1 DEF BeginConfirm, At, Pending, Call, CallFits, storeVars
  <2> HIDE DEF k
  <2> QED BY <1>0, <2>1, MirrorQuiet
<1>2. CASE UpsertAccount(r)
  <2>1. PICK a : Set(r, Call("owner", a, None, calls[r].arg))
    BY <1>2 DEF UpsertAccount
  <2>2. PICK k : k = Call("owner", a, None, calls[r].arg)
    OBVIOUS
  <2>3. accounts \subseteq accounts' /\ ~Pending(calls[r])
        /\ UNCHANGED <<targets, selection, unrepaired>>
    BY <1>2 DEF UpsertAccount, At, Pending
  <2>4. \A x \in targets : \E y \in targets' : y.id = x.id /\ y.account = x.account
    BY <2>3
  <2>5. Set(r, k) /\ CallFits(k)
    BY <2>1, <2>2 DEF Call, CallFits
  <2> QED BY <1>0, <2>3, <2>4, <2>5, MirrorGrows
<1>3. CASE ReadHasDefault(r)
  <2>1. PICK has \in BOOLEAN :
          Set(r, [calls[r] EXCEPT !.at = "ownerTarget",
                                  !.arg = [login |-> @, hasDefault |-> has]])
    BY <1>3 DEF ReadHasDefault
  <2> DEFINE g == [login |-> calls[r].arg, hasDefault |-> has]
             k == [calls[r] EXCEPT !.at = "ownerTarget", !.arg = g]
  <2>2. Set(r, k) /\ UNCHANGED <<accounts, targets, selection, unrepaired>>
        /\ ~Pending(calls[r])
    BY <1>3, <2>1 DEF ReadHasDefault, storeVars, At, Pending
  <2> HIDE DEF g
  <2>3. CallFits(k)
    BY <1>0 DEF CallRecords, CallFits
  <2> HIDE DEF k
  <2> QED BY <1>0, <2>2, <2>3, MirrorQuiet
<1>4. CASE UpsertOwnerTarget(r)
  <2>1. /\ calls[r].account \in AccountIDs /\ calls[r].arg \in LoginArgs
        /\ ~Pending(calls[r])
    BY <1>0, <1>4 DEF UpsertOwnerTarget, ArgsFit, At, Pending
  <2>2. PICK t \in TargetIDs :
          /\ UpsertTargetRow(calls[r].account, Owner[calls[r].arg.login],
                             ~calls[r].arg.hasDefault, t)
          /\ Set(r, Call("seed?", calls[r].account, t, None))
    BY <1>4 DEF UpsertOwnerTarget
  <2>3. Owner[calls[r].arg.login] \in Users /\ (~calls[r].arg.hasDefault) \in BOOLEAN
    BY <2>1, OwnerAssumption DEF LoginArgs
  <2>4. PICK d \in BOOLEAN :
          UpsertTargetRow(calls[r].account, Owner[calls[r].arg.login], d, t)
    BY ONLY <2>2, <2>3
  <2>5. \A x \in targets : \E y \in targets' : y.id = x.id /\ y.account = x.account
    BY <2>1, <2>3, <2>4, UpsertGrows DEF IMInv
  <2>6. UNCHANGED <<accounts, selection, unrepaired>>
    BY <1>4 DEF UpsertOwnerTarget
  <2>7. PICK k : k = Call("seed?", calls[r].account, t, None)
    OBVIOUS
  <2>8. CallFits(k) /\ Set(r, k)
    BY <2>2, <2>7 DEF CallFits, Call
  <2> QED BY <1>0, <2>1, <2>5, <2>6, <2>8, MirrorGrows
<1>5. CASE MaybeSeed(r)
  <2>1. UNCHANGED <<accounts, targets, selection, unrepaired>> /\ ~Pending(calls[r])
    BY <1>5 DEF MaybeSeed, storeVars, At, Pending
  <2>2. CASE Done(r)
    BY <1>0, <2>1, <2>2, MirrorQuiet DEF Done, IdleCall, Call, CallFits
  <2>3. CASE Goto(r, "seed")
    <3> DEFINE k == [calls[r] EXCEPT !.at = "seed"]
    <3>1. Set(r, k) /\ CallFits(k)
      BY <1>0, <2>3, GotoSets DEF Places, CallRecords, CallFits
    <3> HIDE DEF k
    <3> QED BY <1>0, <2>1, <3>1, MirrorQuiet
  <2> QED BY <1>5, <2>2, <2>3 DEF MaybeSeed
<1>6. CASE Seed(r)
  <2>1. PICK new : new = Selection(FALSE, calls[r].account, calls[r].target)
    OBVIOUS
  <2>2. UpdateIMDelivery(new) /\ Set(r, IdleCall) /\ UNCHANGED <<accounts, targets>>
        /\ ~Pending(calls[r]) /\ CallFits(IdleCall)
    BY <1>6, <2>1 DEF Seed, Done, storeVars, At, Pending, CallFits, IdleCall, Call
  <2> QED BY <1>0, <2>2, MirrorUpdate
<1> QED BY <1>1, <1>2, <1>3, <1>4, <1>5, <1>6 DEF ConfirmStep

LEMMA MirrorTargets ==
  ASSUME IMInv, MirrorInv, NEW r \in Requests,
         \/ \E a \in AccountIDs, u \in Users, d \in BOOLEAN : BeginUpsertTarget(r, a, u, d)
         \/ \E x \in targets : BeginSetDefault(r, x) \/ BeginDeleteTarget(r, x)
         \/ UpsertTarget(r) \/ SetDefaultTarget(r)
         \/ RepairIsNeeded(r) \/ Repair(r)
  PROVE  MirrorInv'
<1>0. r \in Callers /\ calls[r] \in CallRecords /\ ArgsFit(calls[r])
  BY DEF IMInv, CallsOK, Callers
<1>i. CallFits(IdleCall)
  BY DEF CallFits, IdleCall, Call
<1>1. ASSUME NEW a \in AccountIDs, NEW u \in Users, NEW d \in BOOLEAN,
             BeginUpsertTarget(r, a, u, d)
      PROVE  MirrorInv'
  <2>1. PICK k : k = Call("target", a, None, [user |-> u, setDefault |-> d])
    OBVIOUS
  <2>2. CallFits(k) /\ ~Pending(calls[r]) /\ Set(r, k)
        /\ UNCHANGED <<accounts, targets, selection, unrepaired>>
    BY <1>1, <2>1 DEF BeginUpsertTarget, At, Pending, Call, CallFits, storeVars
  <2> QED BY <1>0, <2>2, MirrorQuiet
<1>2. ASSUME NEW x \in targets, BeginSetDefault(r, x) \/ BeginDeleteTarget(r, x)
      PROVE  MirrorInv'
  <2>1. PICK p \in {"setDefault", "deleteTarget"} : Set(r, Call(p, x.account, x.id, None))
    BY <1>2 DEF BeginSetDefault, BeginDeleteTarget
  <2>2. PICK k : k = Call(p, x.account, x.id, None)
    OBVIOUS
  <2>3. x.id # None
    BY BoundsAssumption DEF IMInv, TablesOK, Targets, TargetIDs, None
  <2>4. ~Pending(calls[r]) /\ UNCHANGED <<accounts, targets, selection, unrepaired>>
    BY <1>2 DEF BeginSetDefault, BeginDeleteTarget, At, Pending, storeVars
  <2>5. CallFits(k) /\ Set(r, k)
    BY <2>1, <2>2, <2>3 DEF Call, CallFits
  <2> QED BY <1>0, <2>4, <2>5, MirrorQuiet
<1>3. CASE UpsertTarget(r)
  <2>1. /\ calls[r].account \in AccountIDs /\ calls[r].arg \in TargetArgs
        /\ ~Pending(calls[r])
    BY <1>0, <1>3 DEF UpsertTarget, ArgsFit, At, Pending
  <2>2. calls[r].arg.user \in Users /\ calls[r].arg.setDefault \in BOOLEAN
    BY <2>1 DEF TargetArgs
  <2>3. PICK t \in TargetIDs :
          UpsertTargetRow(calls[r].account, calls[r].arg.user, calls[r].arg.setDefault, t)
    BY <1>3 DEF UpsertTarget
  <2>4. \A x \in targets : \E y \in targets' : y.id = x.id /\ y.account = x.account
    BY <2>1, <2>2, <2>3, UpsertGrows DEF IMInv
  <2>5. UNCHANGED <<accounts, selection, unrepaired>> /\ Set(r, IdleCall)
    BY <1>3 DEF UpsertTarget, Done
  <2> QED BY <1>0, <1>i, <2>1, <2>4, <2>5, MirrorGrows
<1>4. CASE SetDefaultTarget(r)
  <2>1. UNCHANGED <<accounts, selection, unrepaired>> /\ Set(r, IdleCall)
        /\ ~Pending(calls[r])
    BY <1>4 DEF SetDefaultTarget, Done, At, Pending
  <2>2. \A x \in targets : \E y \in targets' : y.id = x.id /\ y.account = x.account
    <3> SUFFICES ASSUME NEW x \in targets
                 PROVE  \E y \in targets' : y.id = x.id /\ y.account = x.account
      OBVIOUS
    <3> DEFINE y == IF x.account = calls[r].account
                    THEN [x EXCEPT !.isDefault = (x.id = calls[r].target)] ELSE x
    <3>1. y \in targets'
      BY <1>4 DEF SetDefaultTarget
    <3>2. y.id = x.id /\ y.account = x.account
      BY DEF IMInv, TablesOK, Targets
    <3> HIDE DEF y
    <3> QED BY <3>1, <3>2
  <2> QED BY <1>0, <1>i, <2>1, <2>2, MirrorGrows
<1>5. CASE RepairIsNeeded(r)
  <2>1. UNCHANGED <<accounts, targets, selection, unrepaired>>
    BY <1>5 DEF RepairIsNeeded, storeVars
  <2>2. CASE RemovedSelected(calls[r].account, calls[r].target)
    <3>1. PICK k : k = [calls[r] EXCEPT !.at = "repair"]
      OBVIOUS
    <3>2. Set(r, k) /\ k.at = "repair"
      BY <1>0, <1>5, <2>2, <3>1, GotoSets DEF RepairIsNeeded, Places, CallRecords
    <3> QED BY <1>0, <2>1, <3>2, MirrorQuiet DEF CallFits, Pending
  <2>3. CASE ~RemovedSelected(calls[r].account, calls[r].target)
    <3>1. Set(r, IdleCall) /\ ~Pending(calls[r])
      BY <1>5, <2>3 DEF RepairIsNeeded, Done, At, Pending
    <3> QED BY <1>0, <1>i, <2>1, <3>1, MirrorQuiet
  <2> QED BY <2>2, <2>3
<1>6. CASE Repair(r)
  BY <1>0, <1>6, MirrorClear DEF Repair
<1> QED BY <1>1, <1>2, <1>3, <1>4, <1>5, <1>6

\* What takes the target of the mirror away is about to repair it.
LEMMA MirrorDeletes ==
  ASSUME IMInv, MirrorInv, NEW r \in Requests,
         \/ DeleteTarget(r) \/ (\E a \in AccountIDs : DeleteAccount(r, a))
         \/ BeginReset(r)
  PROVE  MirrorInv'
<1>0. r \in Callers /\ calls[r] \in CallRecords /\ CallFits(calls[r])
  BY DEF IMInv, CallsOK, MirrorInv, Callers
<1>1. CASE DeleteTarget(r)
  <2>1. PICK k : k = [calls[r] EXCEPT !.at = "repair?"]
    OBVIOUS
  <2>2. /\ Set(r, k) /\ k.at = "repair?" /\ k.target = calls[r].target
    BY <1>0, <1>1, <2>1, GotoSets DEF DeleteTarget, Places, CallRecords
  <2>3. /\ UNCHANGED <<accounts, selection, unrepaired>> /\ ~Pending(calls[r])
        /\ targets' = {x \in targets : x.id # calls[r].target}
        /\ calls[r].target # None
    BY <1>0, <1>1 DEF DeleteTarget, At, Pending, CallFits
  <2>4. Served => Served' \/ Pending(k)
    <3>1. CASE selection.target = calls[r].target
      BY <2>2, <2>3, <3>1 DEF Pending, RemovedSelected
    <3>2. CASE selection.target # calls[r].target
      BY <2>3, <3>2 DEF Served, Deliverable, AccountExists
    <3> QED BY <3>1, <3>2
  <2> QED BY <1>0, <2>2, <2>3, <2>4, MirrorMove DEF CallFits
<1>2. ASSUME NEW a \in AccountIDs, DeleteAccount(r, a)
      PROVE  MirrorInv'
  <2>1. PICK k : k = Call("repair?", a, None, None)
    OBVIOUS
  <2>2. Set(r, k) /\ k.at = "repair?" /\ k.account = a /\ k.target = None
    BY <1>2, <2>1 DEF DeleteAccount, Call
  <2>3. /\ UNCHANGED <<selection, unrepaired>> /\ ~Pending(calls[r])
        /\ accounts' = {x \in accounts : x.id # a}
        /\ targets' = {x \in targets : x.account # a}
    BY <1>2 DEF DeleteAccount, At, Pending
  <2>4. Served => Served' \/ Pending(k)
    <3>1. CASE selection.account = a
      BY <2>2, <3>1 DEF Pending, RemovedSelected
    <3>2. CASE selection.account # a
      BY <2>3, <3>2 DEF Served, Deliverable, AccountExists
    <3> QED BY <3>1, <3>2
  <2> QED BY <1>0, <2>2, <2>3, <2>4, MirrorMove DEF CallFits
<1>3. CASE BeginReset(r)
  <2>1. PICK k : k = [calls[r] EXCEPT !.at = "resetSettings"]
    OBVIOUS
  <2>2. Set(r, k) /\ k.at = "resetSettings"
    BY <1>0, <1>3, <2>1, GotoSets DEF BeginReset, Places, CallRecords
  <2>3. UNCHANGED <<selection, unrepaired>> /\ Pending(k) /\ CallFits(k)
    BY <1>3, <2>2 DEF BeginReset, Pending, CallFits
  <2> QED BY <1>0, <2>2, <2>3, MirrorMove
<1> QED BY <1>1, <1>2, <1>3

LEMMA MirrorSettings ==
  ASSUME IMInv, MirrorInv, NEW r \in Requests,
         \/ \E a \in AccountIDs \cup {None}, t \in TargetIDs \cup {None} :
              BeginDisable(r, a, t)
         \/ \E a \in AccountIDs, t \in TargetIDs : BeginUpdate(r, a, t)
         \/ UpdateDeliveryConfig(r) \/ ResetSettings(r)
  PROVE  MirrorInv'
<1>0. r \in Callers
  BY DEF Callers
<1>1. ASSUME NEW a, NEW t, BeginDisable(r, a, t) \/ BeginUpdate(r, a, t)
      PROVE  MirrorInv'
  <2>1. PICK on \in BOOLEAN : Set(r, Call("update", a, t, on))
    BY <1>1 DEF BeginDisable, BeginUpdate
  <2>2. PICK k : k = Call("update", a, t, on)
    OBVIOUS
  <2>3. CallFits(k) /\ Set(r, k) /\ ~Pending(calls[r])
        /\ UNCHANGED <<accounts, targets, selection, unrepaired>>
    BY <1>1, <2>1, <2>2 DEF BeginDisable, BeginUpdate, CallFits, Call, At, Pending, storeVars
  <2> QED BY <1>0, <2>3, MirrorQuiet
<1>2. CASE UpdateDeliveryConfig(r)
  <2>1. PICK new : new = Selection(calls[r].arg, calls[r].account, calls[r].target)
    OBVIOUS
  <2>2. /\ UpdateIMDelivery(new) /\ Set(r, IdleCall) /\ CallFits(IdleCall)
        /\ UNCHANGED <<accounts, targets>> /\ ~Pending(calls[r])
    BY <1>2, <2>1 DEF UpdateDeliveryConfig, Done, storeVars, CallFits, IdleCall, Call, At, Pending
  <2> QED BY <1>0, <2>2, MirrorUpdate
<1>3. CASE ResetSettings(r)
  BY <1>0, <1>3, MirrorClear DEF ResetSettings
<1> QED BY <1>1, <1>2, <1>3

LEMMA MirrorSends ==
  ASSUME IMInv, MirrorInv, NEW r \in Requests,
         SendStep(r)
  PROVE  MirrorInv'
<1>0. r \in Callers /\ calls[r] \in CallRecords
  BY DEF IMInv, CallsOK, Callers
<1>1. ASSUME NEW k, k.at \in {"idle", "check", "resolve", "fallback", "persist"}, Set(r, k),
             UNCHANGED <<storeVars, selection, queue, unrepaired>>, ~Pending(calls[r])
      PROVE  MirrorInv'
  <2>1. CallFits(k) /\ UNCHANGED <<accounts, targets, selection, unrepaired>>
    BY <1>1 DEF CallFits, storeVars
  <2> QED BY <1>0, <1>1, <2>1, MirrorQuiet
<1>2. CASE BeginSend(r)
  <2>1. ~Pending(calls[r]) /\ UNCHANGED <<storeVars, selection, queue, unrepaired>>
    BY <1>2 DEF BeginSend, At, Pending
  <2>2. PICK p \in {"check", "fallback"} : \E a, t : Set(r, Call(p, a, t, None))
    BY <1>2 DEF BeginSend
  <2>3. PICK a, t : Set(r, Call(p, a, t, None))
    BY <2>2
  <2>4. Call(p, a, t, None).at = p
    BY DEF Call
  <2> QED BY <1>1, <2>1, <2>3, <2>4
<1>3. CASE FindFallback(r)
  <2>1. ~Pending(calls[r]) /\ UNCHANGED <<storeVars, selection, queue, unrepaired>>
    BY <1>3 DEF FindFallback, At, Pending
  <2>2. CASE Done(r)
    <3>1. Set(r, IdleCall) /\ IdleCall.at = "idle"
      BY <2>2 DEF Done, IdleCall, Call
    <3> QED BY <1>1, <2>1, <3>1
  <2>3. ASSUME NEW x \in targets, Set(r, Call("persist", x.account, x.id, None))
        PROVE  MirrorInv'
    <3>1. PICK k : k = Call("persist", x.account, x.id, None)
      OBVIOUS
    <3>2. Set(r, k) /\ k.at = "persist"
      BY <2>3, <3>1 DEF Call
    <3> QED BY <1>1, <2>1, <3>2
  <2> QED BY <1>3, <2>2, <2>3 DEF FindFallback
<1>4. CASE PersistFallback(r)
  <2>1. PICK k : k = [calls[r] EXCEPT !.at = "resolve"]
    OBVIOUS
  <2>2. PICK new : new = Selection(FALSE, calls[r].account, calls[r].target)
    OBVIOUS
  <2>3. CallFits(k)
    BY <1>0, <2>1 DEF CallRecords, CallFits
  <2>4. /\ UpdateIMDelivery(new) /\ UNCHANGED <<accounts, targets>> /\ Set(r, k)
        /\ ~Pending(calls[r])
    BY <1>0, <1>4, <2>1, <2>2, GotoSets
       DEF PersistFallback, PersistedFallback, storeVars, At, Pending, Places
  <2> QED BY <1>0, <2>3, <2>4, MirrorUpdate
<1>5. CASE CheckSelection(r)
  <2>1. ~Pending(calls[r]) /\ UNCHANGED <<storeVars, selection, queue, unrepaired>>
    BY <1>5 DEF CheckSelection, At, Pending
  <2>2. CASE Goto(r, "resolve")
    <3>1. PICK k : k = [calls[r] EXCEPT !.at = "resolve"]
      OBVIOUS
    <3>2. Set(r, k) /\ k.at = "resolve"
      BY <1>0, <2>2, <3>1, GotoSets DEF CallRecords, Places
    <3> QED BY <1>1, <2>1, <3>2
  <2>3. CASE Set(r, Call("fallback", calls[r].account, None, None))
    <3>1. PICK k : k = Call("fallback", calls[r].account, None, None)
      OBVIOUS
    <3>2. Set(r, k) /\ k.at = "fallback"
      BY <2>3, <3>1 DEF Call
    <3> QED BY <1>1, <2>1, <3>2
  <2> QED BY <1>5, <2>2, <2>3 DEF CheckSelection
<1> QED BY <1>2, <1>3, <1>4, <1>5 DEF SendStep

LEMMA MirrorDelivery ==
  ASSUME IMInv, MirrorInv,
         (\E c \in Callers : Resolve(c) \/ Send(c)) \/ MirrorText \/ TakeText \/ Restart
  PROVE  MirrorInv'
<1>1. ASSUME NEW c \in Callers, Resolve(c) \/ Send(c)
      PROVE  MirrorInv'
  <2>1. PICK k : /\ Set(c, k)
                 /\ k.at \in {"idle", "send"}
    <3>1. CASE Done(c)
      BY <3>1 DEF Done, IdleCall, Call
    <3>2. CASE Goto(c, "send")
      <4>1. PICK k : k = [calls[c] EXCEPT !.at = "send"]
        OBVIOUS
      <4>2. Set(c, k) /\ k.at = "send"
        BY <3>2, <4>1, GotoSets DEF Places, IMInv, CallsOK, CallRecords
      <4> QED BY <4>2
    <3> QED BY <1>1, <3>1, <3>2 DEF Resolve, Send
  <2>2. CallFits(k) /\ ~Pending(calls[c])
        /\ UNCHANGED <<accounts, targets, selection, unrepaired>>
    BY <1>1, <2>1 DEF Resolve, Send, CallFits, Pending, At, storeVars
  <2> QED BY <1>1, <2>1, <2>2, MirrorQuiet
<1>2. CASE MirrorText
  BY <1>2 DEF MirrorText, storeVars, MirrorInv, Served, CallFits, Pending,
              RemovedSelected, AccountExists, Deliverable
<1>3. CASE TakeText
  <2>1. PICK k : k = Call("resolve", Head(queue).account, Head(queue).target, None)
    OBVIOUS
  <2>2. /\ Set("loop", k) /\ "loop" \in Callers /\ "loop" \notin Requests
        /\ UNCHANGED <<accounts, targets, selection, unrepaired>>
    BY <1>3, <2>1, RequestsAssumption DEF TakeText, Callers, storeVars
  <2> QED BY <2>2, MirrorQuiet
<1>4. CASE Restart
  <2>1. /\ UNCHANGED <<accounts, targets, selection>>
        /\ \A r \in Requests : calls'[r] = IdleCall
    BY <1>4 DEF Restart, storeVars, Callers
  <2>2. \A r \in Requests : CallFits(calls[r])'
    BY <2>1 DEF CallFits, IdleCall, Call
  <2>3. Served <=> Served'
    BY <2>1 DEF Served, Deliverable, AccountExists
  <2>4. unrepaired' \/ Served
    BY <1>4 DEF Restart, Served
  <2> QED BY <2>2, <2>3, <2>4 DEF MirrorInv
<1> QED BY <1>1, <1>2, <1>3, <1>4

LEMMA MirrorNextOK ==
  ASSUME IMInv, MirrorInv, [Next]_imVars
  PROVE  MirrorInv'
<1>1. CASE UNCHANGED imVars
  BY <1>1 DEF imVars, MirrorInv, Served, CallFits, Pending, RemovedSelected,
              AccountExists, Deliverable
<1>2. ASSUME NEW r \in Requests, BeginRequest(r) \/ RequestStep(r)
      PROVE  MirrorInv'
  BY <1>2, MirrorConfirm, MirrorTargets, MirrorDeletes, MirrorSettings
     DEF BeginRequest, RequestStep
<1>3. ASSUME NEW r \in Requests, SendStep(r)
      PROVE  MirrorInv'
  BY <1>3, MirrorSends
<1> QED BY <1>1, <1>2, <1>3, MirrorDelivery DEF Next

\* im/service_test.go:523, TestServiceDeleteSelectedTargetDisablesDelivery, for
\* any number of requests at once, beside the delivery loop, failed saves, resets
\* and restarts: a mirror that is on has its target, or a request is about to
\* switch it off, or that has failed, or the update that switched it on was
\* stored after its target had gone.
THEOREM MirrorIsServed == Spec => []MirrorHasTarget
<1>1. Init => MirrorInv
  BY MirrorInitOK
<1>2. IMInv /\ MirrorInv /\ [Next]_imVars => MirrorInv'
  BY MirrorNextOK
<1>3. MirrorInv => MirrorHasTarget
  BY DEF MirrorInv, Served, Pending, MirrorHasTarget
<1> QED BY <1>1, <1>2, <1>3, IMInvariance, PTL DEF Spec

=============================================================================
