-------------------------- MODULE CreditLedgerProofs --------------------------
(***************************************************************************)
(* Proofs about CreditLedger, for any number of users, calls and keys.     *)
(***************************************************************************)
EXTENDS CreditLedger, SequenceTheorems, TLAPS

AccountEvents == Seq(Account!Event)

-----------------------------------------------------------------------------
(***************************************************************************)
(* Appending one event to a ledger.                                        *)
(***************************************************************************)

\* The appended event is the last one and the others keep their places.
LEMMA AppendEvent ==
    ASSUME NEW s \in AccountEvents, NEW e \in Account!Event
    PROVE  /\ Append(s, e) \in AccountEvents
           /\ Len(Append(s, e)) = Len(s) + 1
           /\ \A i \in 1..Len(s) : Append(s, e)[i] = s[i]
           /\ Append(s, e)[Len(s) + 1] = e
           /\ Len(s) \in Nat
  BY AppendProperties, LenProperties DEF AccountEvents

\* A key stands in the longer ledger if it stood before or is the new one.
LEMMA PostedAppend ==
    ASSUME NEW s \in AccountEvents, NEW e \in Account!Event, NEW k
    PROVE  Account!Posted(Append(s, e), k) <=> Account!Posted(s, k) \/ e.key = k
  <1>1. /\ Len(Append(s, e)) = Len(s) + 1
        /\ \A i \in 1..Len(s) : Append(s, e)[i] = s[i]
        /\ Append(s, e)[Len(s) + 1] = e
        /\ Len(s) \in Nat
    BY AppendEvent
  <1> QED
    BY <1>1 DEF Account!Posted

\* The last event of a longer ledger closes it.
LEMMA ClosingAppend ==
    ASSUME NEW s \in AccountEvents, NEW e \in Account!Event
    PROVE  Account!Closing(Append(s, e)) = e.after
  <1>1. /\ Append(s, e) \in AccountEvents
        /\ Len(Append(s, e)) = Len(s) + 1
        /\ Append(s, e)[Len(s) + 1] = e
        /\ Len(s) \in Nat
    BY AppendEvent
  <1>2. Append(s, e) # <<>>
    BY <1>1, EmptySeq DEF AccountEvents
  <1> QED
    BY <1>1, <1>2 DEF Account!Closing

\* An event that starts from the closing balance continues the chain.
LEMMA ChainedAppend ==
    ASSUME NEW s \in AccountEvents, NEW e \in Account!Event,
           Account!Chained(s), e.after = Account!Closing(s) + e.delta
    PROVE  Account!Chained(Append(s, e))
  <1> DEFINE t == Append(s, e)
  <1>1. /\ Len(t) = Len(s) + 1
        /\ \A i \in 1..Len(s) : t[i] = s[i]
        /\ t[Len(s) + 1] = e
        /\ Len(s) \in Nat
    BY AppendEvent
  <1>2. e.delta \in Int
    BY DEF Account!Event
  <1> SUFFICES ASSUME NEW i \in 1..Len(t)
               PROVE  t[i].after = t[i].delta + (IF i = 1 THEN 0 ELSE t[i - 1].after)
    BY DEF Account!Chained
  <1> HIDE DEF t
  <1>3. CASE i \in 1..Len(s)
    <2>1. i # 1 => i - 1 \in 1..Len(s)
      BY <1>1, <1>3
    <2> QED
      BY <1>1, <1>3, <2>1 DEF Account!Chained
  <1>4. CASE i = Len(s) + 1
    <2>1. CASE Len(s) = 0
      <3>1. s = <<>>
        BY <2>1, EmptySeq DEF AccountEvents
      <3> QED
        BY <1>1, <1>2, <1>4, <2>1, <3>1 DEF Account!Closing
    <2>2. CASE Len(s) # 0
      <3>1. s # <<>>
        BY <2>2, EmptySeq DEF AccountEvents
      <3>2. i # 1 /\ t[i - 1] = s[Len(s)] /\ t[i] = e
        BY <1>1, <1>4, <2>2
      <3>3. s[Len(s)] \in Account!Event
        BY <1>1, <2>2, ElementOfSeq DEF AccountEvents
      <3>4. e.after = s[Len(s)].after + e.delta /\ s[Len(s)].after \in Nat
        BY <3>1, <3>3 DEF Account!Closing, Account!Event
      <3> QED
        BY <1>2, <3>2, <3>4
    <2> QED
      BY <2>1, <2>2
  <1> QED
    BY <1>1, <1>3, <1>4

\* Keys of a ledger, read off one account: the form KeysUnique has per user.
DistinctKeys(s) ==
    \A i, j \in 1..Len(s) : s[i].key # NoKey /\ s[i].key = s[j].key => i = j

\* An unused key keeps the keys distinct.
LEMMA DistinctKeysAppend ==
    ASSUME NEW s \in AccountEvents, NEW e \in Account!Event, DistinctKeys(s),
           e.key # NoKey => ~Account!Posted(s, e.key)
    PROVE  DistinctKeys(Append(s, e))
  <1>1. /\ Len(Append(s, e)) = Len(s) + 1
        /\ \A i \in 1..Len(s) : Append(s, e)[i] = s[i]
        /\ Append(s, e)[Len(s) + 1] = e
        /\ Len(s) \in Nat
    BY AppendEvent
  <1> QED
    BY <1>1 DEF DistinctKeys, Account!Posted

-----------------------------------------------------------------------------
(***************************************************************************)
(* The inductive invariant.                                                *)
(***************************************************************************)

UserOf(c) == asked[c].user
KeyOf(c) == asked[c].req.key

\* The row lock belongs to the calls that are past _lock_user, each with the
\* row it asked for; a refused call may keep it until it rolls back.
LockInv ==
    /\ \A c \in Calls : pc[c] \in Locked => holder[UserOf(c)] = c
    /\ \A u \in Users, c \in Calls :
          holder[u] = c => UserOf(c) = u /\ pc[c] \in Locked \cup {"refused"}

\* What a call read under the lock is still so: the row, its balance and the
\* absence of its key.
ReadInv ==
    \A c \in Calls :
        /\ pc[c] = "lock" => Admissible(asked[c].req)
        /\ pc[c] = "find" => KeyOf(c) # NoKey
        /\ pc[c] \in Locked =>
              /\ Admissible(asked[c].req)
              /\ status[UserOf(c)] = "live"
              /\ read[c] = balance[UserOf(c)]
        /\ pc[c] = "apply" /\ KeyOf(c) # NoKey =>
              ~Account!Posted(ledger[UserOf(c)], KeyOf(c))

\* A flushed call carries the event it will commit, or none because the event
\* of its key is already there.
DraftInv ==
    \A c \in Calls :
        /\ draft[c] # NoEvent =>
              /\ pc[c] = "flushed"
              /\ draft[c] = [delta |-> Delta(asked[c].req),
                             after |-> read[c] + Delta(asked[c].req),
                             key |-> KeyOf(c)]
              /\ KeyOf(c) # NoKey =>
                    ~Account!Posted(ledger[UserOf(c)], KeyOf(c))
        /\ pc[c] = "flushed" /\ draft[c] = NoEvent =>
              KeyOf(c) # NoKey /\ Account!Posted(ledger[UserOf(c)], KeyOf(c))

\* An answer was given about an account that had been opened, and a keyed
\* grant it reported is there.
AnswerInv ==
    \A c \in Calls :
        answer[c] \in {"applied", "replayed"} =>
            /\ status[UserOf(c)] # "absent"
            /\ KeyOf(c) # NoKey /\ status[UserOf(c)] = "live" =>
                  Account!Posted(ledger[UserOf(c)], KeyOf(c))

AccountInv ==
    \A u \in Users :
        /\ Account!Chained(ledger[u])
        /\ balance[u] = Account!Closing(ledger[u])
        /\ DistinctKeys(ledger[u])

IInv == TypeOK /\ LockInv /\ ReadInv /\ DraftInv /\ AnswerInv /\ AccountInv

-----------------------------------------------------------------------------

\* The amount of a request the entry checks let pass is a non-zero integer.
LEMMA DeltaType ==
    ASSUME NEW r \in Requests
    PROVE  /\ Delta(r) \in Int
           /\ Admissible(r) => Delta(r) # 0
           /\ r.key \in Keys \cup {NoKey}
  BY RequestsAssumption DEF Delta, Admissible, MinConsume

\* The ledgers an account is born with are ledgers, chained, with at most one
\* event, and no key.
LEMMA OpeningsAreLedgers ==
    ASSUME NEW s \in Account!Openings
    PROVE  /\ s \in AccountEvents
           /\ Account!Closing(s) \in Nat
           /\ Account!Chained(s)
           /\ DistinctKeys(s)
  <1>1. CASE s = <<>>
    BY <1>1, EmptySeq DEF AccountEvents, Account!Closing, Account!Chained, DistinctKeys
  <1>2. CASE FreeCredits > 0 /\ s = <<[delta |-> FreeCredits,
                                      after |-> FreeCredits, key |-> NoKey]>>
    <2>1. [delta |-> FreeCredits, after |-> FreeCredits, key |-> NoKey]
             \in Account!Event
      BY <1>2, FreeCreditsAssumption DEF Account!Event
    <2> QED
      BY <1>2, <2>1, FreeCreditsAssumption
         DEF AccountEvents, Account!Closing, Account!Chained, DistinctKeys
  <1> QED
    BY <1>1, <1>2 DEF Account!Openings

LEMMA InitIInv == Init => IInv
  <1> SUFFICES ASSUME Init PROVE IInv
    OBVIOUS
  <1> USE DEF Init
  <1>0. <<>> \in Account!Openings
    BY DEF Account!Openings
  <1>1. TypeOK
    BY <1>0, OpeningsAreLedgers
       DEF TypeOK, Account!TypeOK, Locations, AccountEvents
  <1>2. LockInv
    BY NobodyAssumption DEF LockInv, Locked
  <1>3. ReadInv /\ DraftInv /\ AnswerInv
    BY DEF ReadInv, DraftInv, AnswerInv, Locked
  <1>4. AccountInv
    BY <1>0, OpeningsAreLedgers DEF AccountInv, Account!Closing
  <1> QED
    BY <1>1, <1>2, <1>3, <1>4 DEF IInv

-----------------------------------------------------------------------------
(***************************************************************************)
(* One lemma per action: it preserves the invariant.                       *)
(***************************************************************************)

\* Two calls past _lock_user are not about the same user.
LEMMA LockExclusive ==
    ASSUME LockInv, NEW c \in Calls, NEW d \in Calls,
           pc[c] \in Locked, pc[d] \in Locked, UserOf(c) = UserOf(d)
    PROVE  c = d
  BY DEF LockInv

LEMMA CreateUserInv ==
    ASSUME IInv, NEW u \in Users, CreateUser(u)
    PROVE  IInv'
  <1> USE DEF IInv
  <1>0. PICK opening \in Account!Openings :
           /\ ledger' = [ledger EXCEPT ![u] = opening]
           /\ balance' = [balance EXCEPT ![u] = Account!Closing(opening)]
    BY DEF CreateUser, Account!Open
  <1>a. /\ status[u] = "absent"
        /\ status' = [status EXCEPT ![u] = "live"]
        /\ UNCHANGED <<holder, pc, asked, read, draft, answer>>
    BY DEF CreateUser, Account!Open
  <1>b. /\ opening \in AccountEvents
        /\ Account!Closing(opening) \in Nat
        /\ Account!Chained(opening)
        /\ DistinctKeys(opening)
    BY OpeningsAreLedgers
  <1>c. \A c \in Calls : pc[c] \in Locked => UserOf(c) # u
    BY <1>a DEF ReadInv, Locked
  <1>d. \A c \in Calls : answer[c] \in {"applied", "replayed"} => UserOf(c) # u
    BY <1>a DEF AnswerInv
  <1>e. \A c \in Calls : UserOf(c) \in Users
    BY DEF TypeOK, UserOf
  <1>1. TypeOK'
    BY <1>0, <1>a, <1>b DEF TypeOK, Account!TypeOK, AccountEvents
  <1>2. LockInv'
    BY <1>a DEF LockInv, UserOf
  <1>3. ReadInv'
    BY <1>0, <1>a, <1>e
       DEF ReadInv, UserOf, KeyOf, TypeOK, Account!TypeOK, Locked
  <1>4. DraftInv'
    <2>1. \A c \in Calls : draft[c] # NoEvent => pc[c] = "flushed"
      BY DEF DraftInv
    <2>2. \A c \in Calls : pc[c] = "flushed" => ledger'[UserOf(c)] = ledger[UserOf(c)]
      BY <1>0, <1>c, <1>e DEF Locked, TypeOK, Account!TypeOK
    <2> QED
      BY <1>a, <2>1, <2>2 DEF DraftInv, UserOf, KeyOf
  <1>5. AnswerInv'
    BY <1>0, <1>a, <1>d, <1>e DEF AnswerInv, UserOf, KeyOf, TypeOK, Account!TypeOK
  <1>6. AccountInv'
    <2> SUFFICES ASSUME NEW v \in Users
                 PROVE  /\ Account!Chained(ledger'[v])
                        /\ balance'[v] = Account!Closing(ledger'[v])
                        /\ DistinctKeys(ledger'[v])
      BY DEF AccountInv
    <2>1. CASE v = u
      BY <1>0, <1>b, <2>1 DEF TypeOK, Account!TypeOK
    <2>2. CASE v # u
      BY <1>0, <2>2 DEF AccountInv, TypeOK, Account!TypeOK
    <2> QED
      BY <2>1, <2>2
  <1> QED
    BY <1>1, <1>2, <1>3, <1>4, <1>5, <1>6

LEMMA DeleteUserInv ==
    ASSUME IInv, NEW u \in Users, DeleteUser(u)
    PROVE  IInv'
  <1> USE DEF IInv
  <1>0. /\ status[u] = "live"
        /\ holder[u] = Nobody
        /\ status' = [status EXCEPT ![u] = "deleted"]
        /\ ledger' = [ledger EXCEPT ![u] = <<>>]
        /\ balance' = [balance EXCEPT ![u] = 0]
        /\ UNCHANGED <<holder, pc, asked, read, draft, answer>>
    BY DEF DeleteUser, Lockable, Account!Close
  <1>a. \A c \in Calls : pc[c] \in Locked => UserOf(c) # u
    BY <1>0, NobodyAssumption DEF LockInv
  <1>b. \A c \in Calls : UserOf(c) \in Users
    BY DEF TypeOK, UserOf
  <1>c. <<>> \in AccountEvents /\ Account!Chained(<<>>) /\ DistinctKeys(<<>>)
    BY EmptySeq DEF AccountEvents, Account!Chained, DistinctKeys
  <1>1. TypeOK'
    BY <1>0, <1>c DEF TypeOK, Account!TypeOK, AccountEvents
  <1>2. LockInv'
    BY <1>0 DEF LockInv, UserOf
  <1>3. ReadInv'
    BY <1>0, <1>a, <1>b
       DEF ReadInv, UserOf, KeyOf, TypeOK, Account!TypeOK, Locked
  <1>4. DraftInv'
    <2>1. \A c \in Calls : draft[c] # NoEvent => pc[c] = "flushed"
      BY DEF DraftInv
    <2>2. \A c \in Calls : pc[c] = "flushed" => ledger'[UserOf(c)] = ledger[UserOf(c)]
      BY <1>0, <1>a, <1>b DEF Locked, TypeOK, Account!TypeOK
    <2> QED
      BY <1>0, <2>1, <2>2 DEF DraftInv, UserOf, KeyOf
  <1>5. AnswerInv'
    BY <1>0, <1>b DEF AnswerInv, UserOf, KeyOf, TypeOK, Account!TypeOK
  <1>6. AccountInv'
    BY <1>0, <1>c DEF AccountInv, TypeOK, Account!TypeOK, Account!Closing
  <1> QED
    BY <1>1, <1>2, <1>3, <1>4, <1>5, <1>6

\* Actions that leave the committed rows alone keep AccountInv.
LEMMA AccountUntouched ==
    ASSUME AccountInv, UNCHANGED dbVars
    PROVE  AccountInv'
  BY DEF AccountInv, dbVars

LEMMA BeginInv ==
    ASSUME IInv, NEW c \in Calls, NEW u \in Users, NEW r \in Requests, Begin(c, u, r)
    PROVE  IInv'
  <1> USE DEF IInv
  <1>0. /\ pc[c] = "idle"
        /\ pc' = [pc EXCEPT ![c] = IF Admissible(r) THEN "lock" ELSE "refused"]
        /\ asked' = [asked EXCEPT ![c] = [user |-> u, req |-> r]]
        /\ answer' = [answer EXCEPT ![c] = "none"]
        /\ UNCHANGED <<status, balance, ledger, holder, read, draft>>
    BY DEF Begin
  <1>1. TypeOK'
    BY <1>0 DEF TypeOK, Account!TypeOK, Locations
  <1>2. LockInv'
    BY <1>0 DEF LockInv, UserOf, Locked, TypeOK
  <1>3. ReadInv'
    BY <1>0 DEF ReadInv, UserOf, KeyOf, Locked, TypeOK
  <1>4. DraftInv'
    BY <1>0 DEF DraftInv, UserOf, KeyOf, TypeOK
  <1>5. AnswerInv'
    BY <1>0 DEF AnswerInv, UserOf, KeyOf, TypeOK
  <1>6. AccountInv'
    BY <1>0, AccountUntouched DEF dbVars
  <1> QED
    BY <1>1, <1>2, <1>3, <1>4, <1>5, <1>6

LEMMA LockUserInv ==
    ASSUME IInv, NEW c \in Calls, LockUser(c)
    PROVE  IInv'
  <1> USE DEF IInv
  <1>0. /\ pc[c] = "lock"
        /\ holder[UserOf(c)] = Nobody
        /\ UserOf(c) \in Users
        /\ UNCHANGED <<status, balance, ledger, asked, draft, answer>>
    BY DEF LockUser, Lockable, UserOf, TypeOK
  <1>6. AccountInv'
    BY <1>0, AccountUntouched DEF dbVars
  <1>5. AnswerInv'
    BY <1>0 DEF AnswerInv, UserOf, KeyOf
  <1>a. CASE status[UserOf(c)] = "live"
    <2>0. /\ holder' = [holder EXCEPT ![UserOf(c)] = c]
          /\ read' = [read EXCEPT ![c] = balance[UserOf(c)]]
          /\ pc' = [pc EXCEPT ![c] = IF KeyOf(c) # NoKey THEN "find" ELSE "apply"]
      BY <1>a DEF LockUser, Lockable, UserOf, KeyOf
    <2>1. TypeOK'
      BY <1>0, <2>0 DEF TypeOK, Account!TypeOK, Locations
    <2>2. LockInv'
      BY <1>0, <2>0, NobodyAssumption DEF LockInv, UserOf, Locked, TypeOK
    <2>3. ReadInv'
      BY <1>0, <1>a, <2>0 DEF ReadInv, UserOf, KeyOf, Locked, TypeOK
    <2>4. DraftInv'
      BY <1>0, <2>0 DEF DraftInv, UserOf, KeyOf, TypeOK
    <2> QED
      BY <1>5, <1>6, <2>1, <2>2, <2>3, <2>4
  <1>b. CASE status[UserOf(c)] # "live"
    <2>0. /\ pc' = [pc EXCEPT ![c] = "refused"]
          /\ UNCHANGED <<holder, read>>
      BY <1>b DEF LockUser, Lockable, UserOf
    <2>1. TypeOK'
      BY <1>0, <2>0 DEF TypeOK, Account!TypeOK, Locations
    <2>2. LockInv'
      BY <1>0, <2>0, NobodyAssumption DEF LockInv, UserOf, Locked, TypeOK
    <2>3. ReadInv'
      BY <1>0, <2>0 DEF ReadInv, UserOf, KeyOf, Locked, TypeOK
    <2>4. DraftInv'
      BY <1>0, <2>0 DEF DraftInv, UserOf, KeyOf, TypeOK
    <2> QED
      BY <1>5, <1>6, <2>1, <2>2, <2>3, <2>4
  <1> QED
    BY <1>a, <1>b

LEMMA FindKeyInv ==
    ASSUME IInv, NEW c \in Calls, FindKey(c)
    PROVE  IInv'
  <1> USE DEF IInv
  <1>0. /\ pc[c] = "find"
        /\ pc' = [pc EXCEPT ![c] =
                    IF Account!Posted(ledger[UserOf(c)], KeyOf(c))
                    THEN "flushed" ELSE "apply"]
        /\ UNCHANGED <<status, balance, ledger, holder, asked, read, draft, answer>>
    BY DEF FindKey, KeyKnown, UserOf, KeyOf
  <1>a. draft[c] = NoEvent
    BY <1>0 DEF DraftInv
  <1>1. TypeOK'
    BY <1>0 DEF TypeOK, Account!TypeOK, Locations
  <1>2. LockInv'
    BY <1>0 DEF LockInv, UserOf, Locked, TypeOK
  <1>3. ReadInv'
    BY <1>0 DEF ReadInv, UserOf, KeyOf, Locked, TypeOK
  <1>4. DraftInv'
    <2>1. KeyOf(c) # NoKey
      BY <1>0 DEF ReadInv
    <2> QED
      BY <1>0, <1>a, <2>1 DEF DraftInv, UserOf, KeyOf, TypeOK
  <1>5. AnswerInv'
    BY <1>0 DEF AnswerInv, UserOf, KeyOf
  <1>6. AccountInv'
    BY <1>0, AccountUntouched DEF dbVars
  <1> QED
    BY <1>1, <1>2, <1>3, <1>4, <1>5, <1>6

LEMMA ApplyInv ==
    ASSUME IInv, NEW c \in Calls, Apply(c)
    PROVE  IInv'
  <1> USE DEF IInv
  <1> DEFINE next == read[c] + Delta(asked[c].req)
  <1>0. /\ pc[c] = "apply"
        /\ asked[c].req \in Requests
        /\ UNCHANGED <<status, balance, ledger, holder, asked, read, answer>>
    BY DEF Apply, Overdraws, NextBalance, TypeOK
  <1>5. AnswerInv'
    BY <1>0 DEF AnswerInv, UserOf, KeyOf
  <1>6. AccountInv'
    BY <1>0, AccountUntouched DEF dbVars
  <1>a. CASE next < 0
    <2>0. pc' = [pc EXCEPT ![c] = "refused"] /\ UNCHANGED draft
      BY <1>a DEF Apply, Overdraws, NextBalance
    <2>1. TypeOK'
      BY <1>0, <2>0 DEF TypeOK, Account!TypeOK, Locations
    <2>2. LockInv'
      BY <1>0, <2>0 DEF LockInv, UserOf, Locked, TypeOK
    <2>3. ReadInv'
      BY <1>0, <2>0 DEF ReadInv, UserOf, KeyOf, Locked, TypeOK
    <2>4. DraftInv'
      BY <1>0, <2>0 DEF DraftInv, UserOf, KeyOf, TypeOK
    <2> QED
      BY <1>5, <1>6, <2>1, <2>2, <2>3, <2>4
  <1>b. CASE ~(next < 0)
    <2> DEFINE e == [delta |-> Delta(asked[c].req), after |-> next, key |-> KeyOf(c)]
    <2>0. /\ pc' = [pc EXCEPT ![c] = "flushed"]
          /\ draft' = [draft EXCEPT ![c] = e]
      BY <1>b DEF Apply, Overdraws, NextBalance, KeyOf
    <2>a. e \in Account!Event
      <3>1. Admissible(asked[c].req)
        BY <1>0 DEF ReadInv, Locked
      <3>2. read[c] \in Nat
        BY DEF TypeOK
      <3> QED
        BY <1>0, <1>b, <3>1, <3>2, DeltaType DEF Account!Event, KeyOf
    <2>b. e # NoEvent
      BY <2>a, NoEventAssumption
    <2> HIDE DEF e
    <2>1. TypeOK'
      BY <1>0, <2>0, <2>a DEF TypeOK, Account!TypeOK, Locations
    <2>2. LockInv'
      BY <1>0, <2>0 DEF LockInv, UserOf, Locked, TypeOK
    <2>3. ReadInv'
      BY <1>0, <2>0 DEF ReadInv, UserOf, KeyOf, Locked, TypeOK
    <2>4. DraftInv'
      <3>1. KeyOf(c) # NoKey => ~Account!Posted(ledger[UserOf(c)], KeyOf(c))
        BY <1>0 DEF ReadInv
      <3>2. draft'[c] = e /\ pc'[c] = "flushed"
        BY <2>0 DEF TypeOK
      <3>3. \A d \in Calls : d # c => draft'[d] = draft[d] /\ pc'[d] = pc[d]
        BY <2>0 DEF TypeOK
      <3> QED
        BY <1>0, <2>b, <3>1, <3>2, <3>3 DEF DraftInv, UserOf, KeyOf, e
    <2> QED
      BY <1>5, <1>6, <2>1, <2>2, <2>3, <2>4
  <1> QED
    BY <1>a, <1>b

\* What a call holds is free once its transaction ended, and only that.
LEMMA ReleasedLocks ==
    ASSUME TypeOK, LockInv, NEW c \in Calls,
           holder' = Released(c), pc' = [pc EXCEPT ![c] = "idle"], UNCHANGED asked
    PROVE  LockInv' /\ holder' \in [Users -> Calls \cup {Nobody}]
  <1>1. holder' \in [Users -> Calls \cup {Nobody}]
    BY DEF TypeOK, Released
  <1>2. \A u \in Users :
           holder'[u] = IF holder[u] = c THEN Nobody ELSE holder[u]
    BY DEF Released
  <1>3. \A d \in Calls : UserOf(d) \in Users /\ UserOf(d)' = UserOf(d)
    BY DEF TypeOK, UserOf
  <1>4. \A d \in Calls : pc'[d] = IF d = c THEN "idle" ELSE pc[d]
    BY DEF TypeOK
  <1>5. \A d \in Calls : pc'[d] \in Locked => d # c /\ holder'[UserOf(d)] = d
    BY <1>2, <1>3, <1>4 DEF LockInv, Locked
  <1>6. \A u \in Users, d \in Calls :
           holder'[u] = d => UserOf(d) = u /\ pc'[d] \in Locked \cup {"refused"}
    BY <1>2, <1>4, NobodyAssumption DEF LockInv
  <1> QED
    BY <1>1, <1>3, <1>5, <1>6 DEF LockInv

LEMMA RollbackInv ==
    ASSUME IInv, NEW c \in Calls, RolledBack(c),
           \/ UNCHANGED answer
           \/ answer' = [answer EXCEPT ![c] = "refused"]
    PROVE  IInv'
  <1> USE DEF IInv
  <1>0. /\ holder' = Released(c)
        /\ pc' = [pc EXCEPT ![c] = "idle"]
        /\ draft' = [draft EXCEPT ![c] = NoEvent]
        /\ UNCHANGED <<status, balance, ledger, asked, read>>
    BY DEF RolledBack
  <1>2. LockInv' /\ holder' \in [Users -> Calls \cup {Nobody}]
    BY <1>0, ReleasedLocks
  <1>1. TypeOK'
    BY <1>0, <1>2 DEF TypeOK, Account!TypeOK, Locations
  <1>3. ReadInv'
    BY <1>0 DEF ReadInv, UserOf, KeyOf, Locked, TypeOK
  <1>4. DraftInv'
    BY <1>0 DEF DraftInv, UserOf, KeyOf, TypeOK
  <1>5. AnswerInv'
    BY <1>0 DEF AnswerInv, UserOf, KeyOf, TypeOK
  <1>6. AccountInv'
    BY <1>0, AccountUntouched DEF dbVars
  <1> QED
    BY <1>1, <1>2, <1>3, <1>4, <1>5, <1>6

\* What a commit of a flushed event does to the account, in terms of the
\* account alone: the draft is computed from what the row still says.
LEMMA CommitPosts ==
    ASSUME IInv, NEW c \in Calls, Commit(c), draft[c] # NoEvent
    PROVE  /\ UserOf(c) \in Users
           /\ draft[c] \in Account!Event
           /\ draft[c].delta = Delta(asked[c].req)
           /\ draft[c].key = KeyOf(c)
           /\ draft[c].after = balance[UserOf(c)] + draft[c].delta
           /\ status[UserOf(c)] = "live"
           /\ KeyOf(c) # NoKey => ~Account!Posted(ledger[UserOf(c)], KeyOf(c))
           /\ Admissible(asked[c].req)
           /\ asked[c].req \in Requests
           /\ answer' = [answer EXCEPT ![c] = "applied"]
           /\ balance' = [balance EXCEPT ![UserOf(c)] = draft[c].after]
           /\ ledger' = [ledger EXCEPT ![UserOf(c)] = Append(@, draft[c])]
  <1>1. pc[c] = "flushed" /\ pc[c] \in Locked
    BY DEF Commit, Locked
  <1>2. UserOf(c) \in Users /\ asked[c].req \in Requests /\ draft[c] \in Account!Event
    BY DEF IInv, TypeOK, UserOf
  <1>3. /\ status[UserOf(c)] = "live"
        /\ read[c] = balance[UserOf(c)]
        /\ Admissible(asked[c].req)
    BY <1>1 DEF IInv, ReadInv
  <1>4. /\ draft[c] = [delta |-> Delta(asked[c].req),
                        after |-> read[c] + Delta(asked[c].req),
                        key |-> KeyOf(c)]
        /\ KeyOf(c) # NoKey => ~Account!Posted(ledger[UserOf(c)], KeyOf(c))
    BY Zenon DEF IInv, DraftInv
  <1>5. /\ answer' = [answer EXCEPT ![c] = "applied"]
        /\ balance' = [balance EXCEPT ![UserOf(c)] = draft[c].after]
        /\ ledger' = [ledger EXCEPT ![UserOf(c)] = Append(@, draft[c])]
    BY DEF Commit, UserOf
  <1> QED
    BY <1>2, <1>3, <1>4, <1>5

LEMMA CommitInv ==
    ASSUME IInv, NEW c \in Calls, Commit(c)
    PROVE  IInv'
  <1> USE DEF IInv
  <1> DEFINE u == UserOf(c)
  <1>0. /\ pc[c] = "flushed"
        /\ holder' = Released(c)
        /\ pc' = [pc EXCEPT ![c] = "idle"]
        /\ draft' = [draft EXCEPT ![c] = NoEvent]
        /\ UNCHANGED <<status, asked, read>>
    BY DEF Commit
  <1>a. u \in Users /\ status[u] = "live"
    BY <1>0 DEF TypeOK, UserOf, ReadInv, Locked
  <1>b. \A d \in Calls : pc'[d] \in Locked => d # c /\ UserOf(d) # u
    BY <1>0, LockExclusive DEF Locked, TypeOK
  <1>2. LockInv' /\ holder' \in [Users -> Calls \cup {Nobody}]
    BY <1>0, ReleasedLocks
  <1>c. \A d \in Calls : UserOf(d) \in Users /\ UserOf(d)' = UserOf(d) /\ KeyOf(d)' = KeyOf(d)
    BY <1>0 DEF TypeOK, UserOf, KeyOf
  <1>d. \A d \in Calls : pc'[d] = IF d = c THEN "idle" ELSE pc[d]
    BY <1>0 DEF TypeOK
  <1>A. CASE draft[c] = NoEvent
    <2>0. /\ answer' = [answer EXCEPT ![c] = "replayed"]
          /\ UNCHANGED <<balance, ledger>>
      BY <1>A DEF Commit
    <2>1. TypeOK'
      BY <1>0, <1>2, <2>0 DEF TypeOK, Account!TypeOK, Locations
    <2>3. ReadInv'
      BY <1>0, <2>0 DEF ReadInv, UserOf, KeyOf, Locked, TypeOK
    <2>4. DraftInv'
      BY <1>0, <2>0 DEF DraftInv, UserOf, KeyOf, TypeOK
    <2>5. AnswerInv'
      <3>1. KeyOf(c) # NoKey /\ Account!Posted(ledger[u], KeyOf(c))
        BY <1>0, <1>A DEF DraftInv
      <3> QED
        BY <1>0, <1>a, <2>0, <3>1 DEF AnswerInv, UserOf, KeyOf, TypeOK
    <2>6. AccountInv'
      BY <1>0, <2>0, AccountUntouched DEF dbVars
    <2> QED
      BY <1>2, <2>1, <2>3, <2>4, <2>5, <2>6
  <1>B. CASE draft[c] # NoEvent
    <2> DEFINE e == draft[c]
    <2>0. /\ e \in Account!Event
          /\ e.after = balance[u] + e.delta
          /\ e.key = KeyOf(c)
          /\ KeyOf(c) # NoKey => ~Account!Posted(ledger[u], KeyOf(c))
          /\ answer' = [answer EXCEPT ![c] = "applied"]
          /\ balance' = [balance EXCEPT ![u] = e.after]
          /\ ledger' = [ledger EXCEPT ![u] = Append(@, e)]
      BY <1>B, CommitPosts
    <2>a. ledger[u] \in AccountEvents
      BY <1>a DEF TypeOK, Account!TypeOK, AccountEvents
    <2>b. /\ ledger'[u] = Append(ledger[u], e)
          /\ balance'[u] = e.after
          /\ \A v \in Users : v # u => ledger'[v] = ledger[v] /\ balance'[v] = balance[v]
      BY <1>a, <2>0 DEF TypeOK, Account!TypeOK
    <2>c. e.after \in Nat /\ e.delta \in Int
      BY <2>0 DEF Account!Event
    <2> HIDE DEF e
    <2>1. TypeOK'
      <3>1. Append(ledger[u], e) \in AccountEvents
        BY <2>0, <2>a, AppendEvent
      <3> QED
        BY <1>0, <1>a, <1>2, <2>0, <2>c, <3>1
           DEF TypeOK, Account!TypeOK, Locations, AccountEvents
    <2>3. ReadInv'
      <3> SUFFICES ASSUME NEW d \in Calls
                   PROVE  /\ pc'[d] = "lock" => Admissible(asked[d].req)
                          /\ pc'[d] = "find" => KeyOf(d) # NoKey
                          /\ pc'[d] \in Locked =>
                                /\ Admissible(asked[d].req)
                                /\ status[UserOf(d)] = "live"
                                /\ read[d] = balance'[UserOf(d)]
                          /\ pc'[d] = "apply" /\ KeyOf(d) # NoKey =>
                                ~Account!Posted(ledger'[UserOf(d)], KeyOf(d))
        BY <1>0, <1>c DEF ReadInv
      <3>1. CASE pc'[d] \in Locked
        <4>1. UserOf(d) # u /\ pc'[d] = pc[d]
          BY <1>b, <1>d, <3>1
        <4>2. balance'[UserOf(d)] = balance[UserOf(d)] /\ ledger'[UserOf(d)] = ledger[UserOf(d)]
          BY <1>c, <2>b, <4>1
        <4> QED
          BY <3>1, <4>1, <4>2 DEF ReadInv, Locked
      <3>2. CASE pc'[d] \notin Locked
        BY <1>d, <3>2 DEF ReadInv, Locked
      <3> QED
        BY <3>1, <3>2
    <2>4. DraftInv'
      <3>1. \A d \in Calls : draft'[d] = IF d = c THEN NoEvent ELSE draft[d]
        BY <1>0 DEF TypeOK
      <3>2. \A d \in Calls : pc'[d] = "flushed" =>
              pc[d] = "flushed" /\ d # c /\ ledger'[UserOf(d)] = ledger[UserOf(d)]
        BY <1>b, <1>c, <1>d, <2>b DEF Locked
      <3>3. \A d \in Calls : draft'[d] # NoEvent => pc'[d] = "flushed"
        BY <1>d, <3>1 DEF DraftInv
      <3> QED
        BY <1>0, <1>c, <3>1, <3>2, <3>3 DEF DraftInv
    <2>5. AnswerInv'
      <3>1. \A d \in Calls : answer'[d] = IF d = c THEN "applied" ELSE answer[d]
        BY <2>0 DEF TypeOK
      <3>2. \A k : Account!Posted(ledger'[u], k) <=> Account!Posted(ledger[u], k) \/ e.key = k
        BY <2>0, <2>a, <2>b, PostedAppend
      <3> SUFFICES ASSUME NEW d \in Calls, answer'[d] \in {"applied", "replayed"}
                   PROVE  /\ status[UserOf(d)] # "absent"
                          /\ KeyOf(d) # NoKey /\ status[UserOf(d)] = "live" =>
                                Account!Posted(ledger'[UserOf(d)], KeyOf(d))
        BY <1>0, <1>c DEF AnswerInv
      <3>3. CASE d = c
        BY <1>a, <2>0, <3>2, <3>3
      <3>4. CASE d # c /\ UserOf(d) = u
        BY <3>1, <3>2, <3>4 DEF AnswerInv
      <3>5. CASE d # c /\ UserOf(d) # u
        BY <1>c, <2>b, <3>1, <3>5 DEF AnswerInv
      <3> QED
        BY <3>3, <3>4, <3>5
    <2>6. AccountInv'
      <3> SUFFICES ASSUME NEW v \in Users
                   PROVE  /\ Account!Chained(ledger'[v])
                          /\ balance'[v] = Account!Closing(ledger'[v])
                          /\ DistinctKeys(ledger'[v])
        BY DEF AccountInv
      <3>1. CASE v = u
        <4>1. /\ Account!Chained(ledger[u])
              /\ balance[u] = Account!Closing(ledger[u])
              /\ DistinctKeys(ledger[u])
          BY <1>a DEF AccountInv
        <4>2. Account!Chained(ledger'[u])
          BY <2>0, <2>a, <2>b, <4>1, ChainedAppend
        <4>3. balance'[u] = Account!Closing(ledger'[u])
          BY <2>0, <2>a, <2>b, ClosingAppend
        <4>4. DistinctKeys(ledger'[u])
          BY <2>0, <2>a, <2>b, <4>1, DistinctKeysAppend
        <4> QED
          BY <3>1, <4>2, <4>3, <4>4
      <3>2. CASE v # u
        BY <2>b, <3>2 DEF AccountInv
      <3> QED
        BY <3>1, <3>2
    <2> QED
      BY <1>2, <2>1, <2>3, <2>4, <2>5, <2>6
  <1> QED
    BY <1>A, <1>B

LEMMA NextInv ==
    ASSUME IInv, [Next]_vars
    PROVE  IInv'
  <1>1. CASE \E u \in Users : CreateUser(u) \/ DeleteUser(u)
    BY <1>1, CreateUserInv, DeleteUserInv
  <1>2. CASE \E c \in Calls, u \in Users, r \in Requests : Begin(c, u, r)
    BY <1>2, BeginInv
  <1>3. ASSUME NEW c \in Calls, Step(c) \/ Abandon(c)
        PROVE  IInv'
    <2>1. CASE LockUser(c)
      BY <2>1, LockUserInv
    <2>2. CASE FindKey(c)
      BY <2>2, FindKeyInv
    <2>3. CASE Apply(c)
      BY <2>3, ApplyInv
    <2>4. CASE Commit(c)
      BY <2>4, CommitInv
    <2>5. CASE Refuse(c)
      BY <2>5, RollbackInv DEF Refuse
    <2>6. CASE Abandon(c)
      BY <2>6, RollbackInv DEF Abandon
    <2> QED
      BY <1>3, <2>1, <2>2, <2>3, <2>4, <2>5, <2>6 DEF Step
  <1>4. CASE UNCHANGED vars
    BY <1>4 DEF vars, IInv, TypeOK, Account!TypeOK, LockInv, ReadInv, DraftInv,
                AnswerInv, AccountInv, UserOf, KeyOf
  <1> QED
    BY <1>1, <1>2, <1>3, <1>4 DEF Next

-----------------------------------------------------------------------------
(***************************************************************************)
(* The theorems.                                                           *)
(***************************************************************************)

\* The strengthened invariant holds in every reachable state: locks, reads,
\* drafts, answers and ledgers of apply_credit_delta agree.
THEOREM Invariance == Spec => []IInv
  BY InitIInv, NextInv, PTL DEF Spec

\* Rows and calls keep their types; in particular no balance and no
\* balance_after is ever negative (the check constraint of the ledger table).
THEOREM TypeCorrect == Spec => []TypeOK
  <1>1. IInv => TypeOK
    BY DEF IInv
  <1> QED
    BY <1>1, Invariance, PTL

\* The ledger explains the balance of every account (apply_credit_delta).
THEOREM LedgerReconciled == Spec => []Reconciled
  <1>1. IInv => Reconciled
    BY DEF IInv, AccountInv, Reconciled, Account!Reconciled
  <1> QED
    BY <1>1, Invariance, PTL

\* No idempotency key is posted twice to an account.
THEOREM KeysPostedOnce == Spec => []KeysUnique
  <1>1. IInv => KeysUnique
    BY DEF IInv, AccountInv, DistinctKeys, KeysUnique, Account!KeysUnique
  <1> QED
    BY <1>1, Invariance, PTL

\* What a caller was told of its keyed grant stays in the ledger.
THEOREM GrantsDurable == Spec => []AcknowledgedGrantsStay
  <1>1. IInv => AcknowledgedGrantsStay
    BY DEF IInv, AnswerInv, AcknowledgedGrantsStay, UserOf, KeyOf
  <1> QED
    BY <1>1, Invariance, PTL

\* The safety half of EveryCallEnds: a call holds the lock of no row but its
\* own user's, and none at all while it waits for one.  So calls of
\* apply_credit_delta never wait in a circle, and the holder of a lock that is
\* waited for can always commit or roll back.
HoldersNeverWait ==
    \A u \in Users, c \in Calls :
        holder[u] = c =>
            /\ pc[c] # "lock"
            /\ \A v \in Users : holder[v] = c => v = u

THEOREM NoDeadlock == Spec => []HoldersNeverWait
  <1>1. IInv => HoldersNeverWait
    BY DEF IInv, LockInv, HoldersNeverWait, UserOf, Locked
  <1> QED
    BY <1>1, Invariance, PTL

\* A flushed event is still current when its caller commits it.
THEOREM DraftsStayCurrent == Spec => []DraftsAreCurrent
  <1>1. ASSUME IInv PROVE DraftsAreCurrent
    <2> SUFFICES ASSUME NEW c \in Calls, pc[c] = "flushed", draft[c] # NoEvent
                 PROVE  /\ status[UserOf(c)] = "live"
                        /\ draft[c].after = balance[UserOf(c)] + draft[c].delta
                        /\ draft[c].key # NoKey =>
                              ~Account!Posted(ledger[UserOf(c)], draft[c].key)
      BY DEF DraftsAreCurrent, UserOf
    <2>1. status[UserOf(c)] = "live" /\ read[c] = balance[UserOf(c)]
      BY <1>1 DEF IInv, ReadInv, Locked
    <2>2. /\ draft[c] = [delta |-> Delta(asked[c].req),
                          after |-> read[c] + Delta(asked[c].req),
                          key |-> KeyOf(c)]
          /\ KeyOf(c) # NoKey => ~Account!Posted(ledger[UserOf(c)], KeyOf(c))
      BY <1>1, Zenon DEF IInv, DraftInv
    <2> QED
      BY <2>1, <2>2
  <1> QED
    BY <1>1, Invariance, PTL

\* Every step of the interleaved calls is a step of the atomic account, or
\* leaves it alone.
LEMMA StepSimulation ==
    ASSUME IInv, [Next]_vars
    PROVE  [Account!Next]_(Account!accountVars)
  <1> USE DEF Account!accountVars
  <1>1. ASSUME NEW u \in Users, CreateUser(u) \/ DeleteUser(u)
        PROVE  Account!Next
    BY <1>1 DEF CreateUser, DeleteUser, Account!Next
  <1>2. ASSUME NEW c \in Calls, Commit(c), draft[c] # NoEvent
        PROVE  Account!Next
    <2> DEFINE u == UserOf(c)
               d == Delta(asked[c].req)
    <2>0. UNCHANGED status
      BY <1>2 DEF Commit
    <2>1. /\ u \in Users
          /\ draft[c] \in Account!Event
          /\ draft[c].delta = d
          /\ draft[c].key = KeyOf(c)
          /\ draft[c].after = balance[u] + d
          /\ status[u] = "live"
          /\ KeyOf(c) # NoKey => ~Account!Posted(ledger[u], KeyOf(c))
          /\ Admissible(asked[c].req)
          /\ asked[c].req \in Requests
          /\ balance' = [balance EXCEPT ![u] = draft[c].after]
          /\ ledger' = [ledger EXCEPT ![u] = Append(@, draft[c])]
      BY <1>2, CommitPosts
    <2>2. draft[c] = [delta |-> d, after |-> balance[u] + d, key |-> KeyOf(c)]
      BY <2>1 DEF Account!Event
    <2>3. balance[u] + d >= 0
      BY <2>1 DEF Account!Event
    <2>4. balance' = [balance EXCEPT ![u] = @ + d]
      BY <2>1
    <2>5. Account!Post(u, d, KeyOf(c))
      BY <2>0, <2>1, <2>2, <2>3, <2>4 DEF Account!Post
    <2>6. KeyOf(c) \in Keys \cup {NoKey}
      BY <2>1, DeltaType DEF KeyOf
    <2>7. d \in {Delta(r) : r \in {q \in Requests : Admissible(q)}}
      BY <2>1
    <2> QED
      BY <2>1, <2>5, <2>6, <2>7 DEF Account!Next
  <1>3. ASSUME NEW c \in Calls, Commit(c), draft[c] = NoEvent
        PROVE  UNCHANGED <<status, balance, ledger>>
    BY <1>3 DEF Commit
  <1>4. ASSUME NEW c \in Calls,
               LockUser(c) \/ FindKey(c) \/ Apply(c) \/ Refuse(c) \/ Abandon(c)
        PROVE  UNCHANGED <<status, balance, ledger>>
    BY <1>4 DEF LockUser, FindKey, Apply, Refuse, Abandon, RolledBack
  <1>5. ASSUME NEW c \in Calls, NEW u \in Users, NEW r \in Requests, Begin(c, u, r)
        PROVE  UNCHANGED <<status, balance, ledger>>
    BY <1>5 DEF Begin
  <1>6. CASE UNCHANGED vars
    BY <1>6 DEF vars
  <1> QED
    BY <1>1, <1>2, <1>3, <1>4, <1>5, <1>6 DEF Next, Step

\* The credit service implements the atomic account: with any number of
\* concurrent calls, rollbacks and dead processes, what is committed is what
\* some sequence of whole postings would have committed.
THEOREM Implements == Spec => AccountSpec
  <1>1. Init => Account!Init
    BY DEF Init, Account!Init
  <1>2. IInv /\ [Next]_vars => [Account!Next]_(Account!accountVars)
    BY StepSimulation
  <1> QED
    BY <1>1, <1>2, Invariance, PTL DEF Spec, AccountSpec, Account!Spec
=============================================================================
