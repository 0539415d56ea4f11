---------------------------- MODULE ProfilesProofs ----------------------------
(* The promises of the saved connections, for any names, targets and        *)
(* passwords, and whatever fails.                                           *)
EXTENDS Profiles, TLAPS

-----------------------------------------------------------------------------
(* The invariant.                                                          *)

Secret == Passwords \cup {Legacy, Empty}

\* An account of either service holds nothing, or what was filed for it.
KeysOK ==
  /\ ring \in [Accounts -> Secret \cup {NoEntry}]
  /\ oldRing \in [Accounts -> Secret \cup {NoEntry}]
  /\ filed \in [Accounts -> SUBSET Secret]
  /\ \A a \in Accounts : /\ ring[a] # NoEntry => ring[a] \in filed[a]
                         /\ oldRing[a] # NoEntry => oldRing[a] \in filed[a]

Saved(it) == DOMAIN it \subseteq Names /\ \A n \in DOMAIN it : it[n] \in Profile

DiskOK == Saved(items) /\ Saved(file.items)

FormOK ==
  /\ name \in Names \cup {NoName} /\ title \in Names \cup {NoName}
  /\ target \in Targets /\ password \in Secret /\ remember \in BOOLEAN

ProfilesInv == KeysOK /\ DiskOK /\ FormOK /\ SecretsStayWithTheirTarget

-----------------------------------------------------------------------------
(* The credential store.                                                   *)

LEMMA SecretsAreEntries == NoEntry \notin Secret
BY ProfilesAssumption DEF Secret

LEMMA AccountType ==
  ASSUME NEW n \in Names \cup {NoName}, NEW h \in Targets
  PROVE  Account(n, h) \in Accounts /\ Account(n, h) = <<n, h>>
BY DEF Account, Accounts

\* An entry is written over or taken out.
LEMMA SetIs ==
  ASSUME NEW r \in [Accounts -> Secret \cup {NoEntry}], NEW a \in Accounts,
         NEW p \in Secret \cup {NoEntry}
  PROVE  /\ Set(r, a, p) \in [Accounts -> Secret \cup {NoEntry}]
         /\ \A b \in Accounts : Set(r, a, p)[b] = IF b = a THEN p ELSE r[b]
BY DEF Set

\* A password that comes back was filed for its account.
LEMMA LoadKeeps ==
  ASSUME KeysOK, NEW a \in Accounts, NEW p, LoadPassword(a, p)
  PROVE  KeysOK' /\ p \in Secret /\ (p # Empty => p \in filed'[a])
<1>1. oldRing' = oldRing /\ filed' = filed
  BY DEF LoadPassword
<1>2. CASE p = ring[a] /\ p # NoEntry /\ UNCHANGED ring
  BY <1>1, <1>2 DEF KeysOK
<1>3. CASE p = oldRing[a] /\ p # NoEntry /\ (ring' = Set(ring, a, p) \/ UNCHANGED ring)
  <2>1. p \in Secret /\ p \in filed[a]
    BY <1>3 DEF KeysOK
  <2>2. CASE ring' = Set(ring, a, p)
    <3>1. /\ ring' \in [Accounts -> Secret \cup {NoEntry}]
          /\ \A b \in Accounts : ring'[b] = IF b = a THEN p ELSE ring[b]
      BY <2>1, <2>2, SetIs DEF KeysOK
    <3> QED
      BY <1>1, <2>1, <3>1 DEF KeysOK
  <2>3. CASE UNCHANGED ring
    BY <1>1, <2>1, <2>3 DEF KeysOK
  <2> QED
    BY <1>3, <2>2, <2>3
<1>4. CASE p = Empty /\ UNCHANGED ring
  BY <1>1, <1>4 DEF KeysOK, Secret
<1> QED
  BY <1>2, <1>3, <1>4 DEF LoadPassword

LEMMA ForgetKeeps ==
  ASSUME KeysOK, NEW a \in Accounts, Forget(a)
  PROVE  /\ KeysOK' /\ filed' = filed
         /\ \A b \in Accounts : b # a => ring'[b] = ring[b]
<1>1. /\ ring' = Set(ring, a, NoEntry) \/ ring' = ring
      /\ oldRing' = Set(oldRing, a, NoEntry) \/ oldRing' = oldRing
      /\ filed' = filed
  BY DEF Forget
<1>2. /\ ring' \in [Accounts -> Secret \cup {NoEntry}]
      /\ \A b \in Accounts : ring'[b] = ring[b] \/ (b = a /\ ring'[b] = NoEntry)
  <2>1. CASE ring' = Set(ring, a, NoEntry)
    BY <2>1, SetIs DEF KeysOK
  <2>2. CASE ring' = ring
    BY <2>2 DEF KeysOK
  <2> QED
    BY <1>1, <2>1, <2>2
<1>3. /\ oldRing' \in [Accounts -> Secret \cup {NoEntry}]
      /\ \A b \in Accounts : oldRing'[b] = oldRing[b] \/ oldRing'[b] = NoEntry
  <2>1. CASE oldRing' = Set(oldRing, a, NoEntry)
    BY <2>1, SetIs DEF KeysOK
  <2>2. CASE oldRing' = oldRing
    BY <2>2 DEF KeysOK
  <2> QED
    BY <1>1, <2>1, <2>2
<1> QED
  BY <1>1, <1>2, <1>3 DEF KeysOK

\* A password that is filed is one of those filed for its account.
LEMMA FileKeeps ==
  ASSUME KeysOK, NEW a \in Accounts, NEW p \in Secret, oldRing' = oldRing,
         ring' = Set(ring, a, p), filed' = [filed EXCEPT ![a] = @ \cup {p}]
  PROVE  KeysOK' /\ \A b \in Accounts : filed[b] \subseteq filed'[b]
<1>1. /\ ring' \in [Accounts -> Secret \cup {NoEntry}]
      /\ \A b \in Accounts : ring'[b] = IF b = a THEN p ELSE ring[b]
  BY SetIs DEF KeysOK
<1>2. /\ filed' \in [Accounts -> SUBSET Secret]
      /\ \A b \in Accounts : filed'[b] = IF b = a THEN filed[b] \cup {p} ELSE filed[b]
  BY DEF KeysOK
<1> QED
  BY <1>1, <1>2 DEF KeysOK

-----------------------------------------------------------------------------
(* The profiles.                                                           *)

LEMMA PersistKeeps ==
  ASSUME DiskOK, Saved(items'), Persist PROVE DiskOK'
<1>1. file' = [items |-> items', last |-> lastUsed'] \/ file' = file
  BY DEF Persist
<1> QED
  BY <1>1 DEF DiskOK, Saved

LEMMA DeletedSaved ==
  ASSUME Saved(items), NEW n, items' = [x \in DOMAIN items \ {n} |-> items[x]]
  PROVE  Saved(items') /\ DOMAIN items' = DOMAIN items \ {n}
BY DEF Saved

LEMMA UpsertSaved ==
  ASSUME Saved(items), NEW n \in Names, NEW p \in Profile, Upsert(n, p)
  PROVE  /\ Saved(items') /\ n \in DOMAIN items' /\ items'[n].remember = p.remember
         /\ \A x \in DOMAIN items : items'[x].queries = items[x].queries
         /\ \A x \in DOMAIN items : x # n => items'[x] = items[x]
<1>1. items' = [x \in DOMAIN items \cup {n} |->
                  IF x # n THEN items[x]
                  ELSE IF n \in DOMAIN items THEN [p EXCEPT !.queries = items[n].queries] ELSE p]
  BY DEF Upsert
<1>2. n \in DOMAIN items =>
        /\ [p EXCEPT !.queries = items[n].queries] \in Profile
        /\ [p EXCEPT !.queries = items[n].queries].remember = p.remember
        /\ [p EXCEPT !.queries = items[n].queries].queries = items[n].queries
  BY DEF Saved, Profile
<1>3. DOMAIN items' = DOMAIN items \cup {n}
  BY <1>1
<1>4. \A x \in DOMAIN items : x # n => items'[x] = items[x]
  BY <1>1
<1>5. items'[n] = IF n \in DOMAIN items THEN [p EXCEPT !.queries = items[n].queries] ELSE p
  BY <1>1
<1> QED
  BY <1>2, <1>3, <1>4, <1>5 DEF Saved

-----------------------------------------------------------------------------
(* One lemma for each action that touches keys or profiles: the invariant,  *)
(* and what it leaves alone.                                               *)

QueriesKept ==
  \A n \in DOMAIN items \cap DOMAIN items' :
    items[n].queries /\ ~items'[n].queries =>
      items' \in {[items EXCEPT ![n].queries = FALSE], file.items}

SecretsKept ==
  \A n \in DOMAIN items :
    LET a == <<n, items[n].at>>
    IN items[n].remember /\ ring[a] # NoEntry /\ ring'[a] = NoEntry =>
         \/ n \notin DOMAIN items' \/ ~items'[n].remember
         \/ <<name, target>> = a /\ remember /\ ~remember'

Step == ProfilesInv' /\ QueriesKept /\ SecretsKept

\* Nothing was given back.
LEMMA NothingGiven ==
  ASSUME given' = Nothing PROVE SecretsStayWithTheirTarget'
BY DEF Nothing, SecretsStayWithTheirTarget

\* Profiles that stay as they are keep their queries and are accounts.
LEMMA ItemsSame ==
  ASSUME items' = items PROVE QueriesKept
BY DEF QueriesKept

LEMMA KeysSame ==
  ASSUME ring' = ring PROVE SecretsKept
BY DEF SecretsKept

LEMMA ItemAccount ==
  ASSUME DiskOK, NEW n \in DOMAIN items
  PROVE  /\ n \in Names /\ items[n] \in Profile /\ items[n].at \in Targets
         /\ <<n, items[n].at>> \in Accounts
BY DEF DiskOK, Saved, Profile, Accounts

LEMMA EditFormStep ==
  ASSUME ProfilesInv, EditForm PROVE Step
<1>1. given' = Nothing /\ UNCHANGED <<items, lastUsed, file, ring, oldRing, filed, name, remember>>
  BY DEF EditForm, Act, disk, keys
<1>2. FormOK'
  BY <1>1 DEF EditForm, ProfilesInv, FormOK, Secret
<1>3. KeysOK' /\ DiskOK'
  BY <1>1 DEF ProfilesInv, KeysOK, DiskOK, Saved
<1> QED
  BY <1>1, <1>2, <1>3, NothingGiven, ItemsSame, KeysSame DEF Step, ProfilesInv

LEMMA TickRememberStep ==
  ASSUME ProfilesInv, TickRemember PROVE Step
<1>1. /\ given' = Nothing /\ remember' = ~remember
      /\ UNCHANGED <<items, lastUsed, file, name, target, password, title>>
  BY DEF TickRemember, Act, disk
<1>2. FormOK' /\ DiskOK'
  BY <1>1 DEF ProfilesInv, FormOK, DiskOK, Saved
<1>3. Mine \in Accounts /\ Mine = <<name, target>>
  BY AccountType DEF Mine, ProfilesInv, FormOK
<1>4. CASE remember
  <2>1. Forget(Mine)
    BY <1>4 DEF TickRemember
  <2>2. KeysOK' /\ \A b \in Accounts : b # Mine => ring'[b] = ring[b]
    BY <1>3, <2>1, ForgetKeeps DEF ProfilesInv
  <2>3. SecretsKept
    BY <1>1, <1>3, <1>4, <2>2, ItemAccount DEF SecretsKept, ProfilesInv
  <2> QED
    BY <1>1, <1>2, <2>2, <2>3, NothingGiven, ItemsSame DEF Step, ProfilesInv
<1>5. CASE ~remember
  <2>1. UNCHANGED <<ring, oldRing, filed>>
    BY <1>5 DEF TickRemember, keys
  <2>2. KeysOK'
    BY <2>1 DEF ProfilesInv, KeysOK
  <2> QED
    BY <1>1, <1>2, <2>1, <2>2, NothingGiven, ItemsSame, KeysSame DEF Step, ProfilesInv
<1> QED
  BY <1>4, <1>5

\* Saving: the password is filed, could not be, or is forgotten with the box
\* unticked in the profile that is saved.
LEMMA SaveProfileStep ==
  ASSUME ProfilesInv, SaveProfile PROVE Step
<1> DEFINE a == Account(title, target)
<1>1. /\ given' = Nothing /\ title # NoName /\ name' = title /\ lastUsed' = title
      /\ UNCHANGED <<target, password, title>> /\ Persist
      /\ Upsert(title, [at |-> target, remember |-> remember', queries |-> FALSE])
  BY DEF SaveProfile, Act
<1>2. \/ /\ remember /\ UNCHANGED <<oldRing, remember>> /\ ring' = Set(ring, a, password)
         /\ filed' = [filed EXCEPT ![a] = @ \cup {password}]
      \/ remember' = FALSE /\ UNCHANGED <<ring, oldRing, filed>>
      \/ ~remember /\ Forget(a) /\ UNCHANGED remember
  BY DEF SaveProfile, keys, Account
<1>3. title \in Names /\ target \in Targets /\ password \in Secret /\ remember \in BOOLEAN
  BY <1>1 DEF ProfilesInv, FormOK
<1>4. a \in Accounts /\ a = <<title, target>>
  BY <1>3, AccountType
<1> HIDE DEF a
<1>5. remember' \in BOOLEAN
  BY <1>2, <1>3
<1>6. FormOK'
  BY <1>1, <1>3, <1>5 DEF FormOK
<1> DEFINE p == [at |-> target, remember |-> remember', queries |-> FALSE]
<1>7. p \in Profile /\ p.remember = remember'
  BY <1>3, <1>5 DEF Profile
<1> HIDE DEF p
<1>8. Upsert(title, p)
  BY <1>1 DEF p
<1>9. /\ Saved(items') /\ title \in DOMAIN items' /\ items'[title].remember = remember'
      /\ \A x \in DOMAIN items : items'[x].queries = items[x].queries
  BY <1>3, <1>7, <1>8, UpsertSaved DEF ProfilesInv, DiskOK
<1>10. DiskOK'
  BY <1>1, <1>9, PersistKeeps DEF ProfilesInv
<1>11. QueriesKept
  BY <1>9 DEF QueriesKept
<1>12. KeysOK' /\ SecretsKept
  <2>1. CASE /\ remember /\ UNCHANGED <<oldRing, remember>> /\ ring' = Set(ring, a, password)
             /\ filed' = [filed EXCEPT ![a] = @ \cup {password}]
    <3>1. KeysOK'
      BY <1>3, <1>4, <2>1, FileKeeps DEF ProfilesInv
    <3>2. \A b \in Accounts : ring'[b] = IF b = a THEN password ELSE ring[b]
      <4>1. ring \in [Accounts -> Secret \cup {NoEntry}] /\ password \in Secret \cup {NoEntry}
        BY <1>3 DEF ProfilesInv, KeysOK
      <4>2. \A b \in Accounts : Set(ring, a, password)[b] = IF b = a THEN password ELSE ring[b]
        BY <1>4, <4>1 DEF Set
      <4> QED
        BY <2>1, <4>2
    <3>3. password # NoEntry
      BY <1>3, SecretsAreEntries
    <3>4. SecretsKept
      BY <3>2, <3>3, ItemAccount DEF SecretsKept, ProfilesInv
    <3> QED
      BY <3>1, <3>4
  <2>2. CASE remember' = FALSE /\ UNCHANGED <<ring, oldRing, filed>>
    BY <2>2, KeysSame DEF ProfilesInv, KeysOK
  <2>3. CASE ~remember /\ Forget(a) /\ UNCHANGED remember
    <3>1. KeysOK' /\ \A b \in Accounts : b # a => ring'[b] = ring[b]
      BY <1>4, <2>3, ForgetKeeps DEF ProfilesInv
    <3>2. ASSUME NEW n \in DOMAIN items, ring[<<n, items[n].at>>] # NoEntry,
                 ring'[<<n, items[n].at>>] = NoEntry
          PROVE  ~items'[n].remember
      <4>1. <<n, items[n].at>> = a
        BY <3>1, <3>2, ItemAccount DEF ProfilesInv
      <4>2. n = title
        BY <1>4, <4>1
      <4> QED
        BY <1>9, <2>3, <4>2
    <3>3. SecretsKept
      BY <3>2 DEF SecretsKept
    <3> QED
      BY <3>1, <3>3
  <2> QED
    BY <1>2, <2>1, <2>2, <2>3
<1> QED
  BY <1>1, <1>6, <1>10, <1>11, <1>12, NothingGiven DEF Step, ProfilesInv

LEMMA DeleteProfileStep ==
  ASSUME ProfilesInv, DeleteProfile PROVE Step
<1>1. /\ given' = Nothing /\ title \in DOMAIN items /\ Persist
      /\ items' = [x \in DOMAIN items \ {title} |-> items[x]]
      /\ Forget(Account(title, items[title].at))
      /\ UNCHANGED <<name, target, password, title, remember>>
  BY DEF DeleteProfile, Act, form
<1>2. Saved(items') /\ DOMAIN items' = DOMAIN items \ {title}
  BY <1>1, DeletedSaved DEF ProfilesInv, DiskOK
<1>3. DiskOK' /\ FormOK'
  BY <1>1, <1>2, PersistKeeps DEF ProfilesInv, FormOK
<1> DEFINE a == <<title, items[title].at>>
<1>4. a \in Accounts /\ Account(title, items[title].at) = a
  BY <1>1, ItemAccount DEF ProfilesInv, Account
<1> HIDE DEF a
<1>5. KeysOK' /\ \A b \in Accounts : b # a => ring'[b] = ring[b]
  BY <1>1, <1>4, ForgetKeeps DEF ProfilesInv
<1>6. SecretsKept
  <2>1. \A n \in DOMAIN items \ {title} : <<n, items[n].at>> # a
    BY DEF a
  <2> QED
    BY <1>2, <1>5, <2>1, ItemAccount DEF SecretsKept, ProfilesInv
<1>7. QueriesKept
  BY <1>1, <1>2 DEF QueriesKept
<1> QED
  BY <1>1, <1>3, <1>5, <1>6, <1>7, NothingGiven DEF Step, ProfilesInv

LEMMA EditQueriesStep ==
  ASSUME ProfilesInv, EditQueries PROVE Step
<1>1. /\ given' = Nothing /\ title \in DOMAIN items /\ Persist
      /\ items' = [items EXCEPT ![title].queries = ~@]
      /\ UNCHANGED <<ring, oldRing, filed, name, target, password, title, remember>>
  BY DEF EditQueries, Act, keys, form
<1>2. items[title] \in Profile
  BY <1>1, ItemAccount DEF ProfilesInv
<1>3. Saved(items')
  BY <1>1, <1>2 DEF ProfilesInv, DiskOK, Saved, Profile
<1>4. DiskOK' /\ FormOK' /\ KeysOK'
  BY <1>1, <1>3, PersistKeeps DEF ProfilesInv, FormOK, KeysOK
<1>5. ASSUME NEW n \in DOMAIN items, items[n].queries, ~items'[n].queries
      PROVE  items' = [items EXCEPT ![n].queries = FALSE]
  <2>1. n = title
    BY <1>1, <1>5
  <2>2. items[title].queries \in BOOLEAN
    BY <1>2 DEF Profile
  <2> DEFINE b == ~items[title].queries
  <2>3. b = FALSE
    BY <1>5, <2>1, <2>2
  <2>4. items' = [items EXCEPT ![title].queries = b]
    BY <1>1, Zenon
  <2> HIDE DEF b
  <2> QED
    BY <2>1, <2>3, <2>4
<1>6. QueriesKept
  BY <1>5 DEF QueriesKept
<1> QED
  BY <1>1, <1>4, <1>6, NothingGiven, KeysSame DEF Step, ProfilesInv

-----------------------------------------------------------------------------
(* A profile is put into the form: loaded, or preselected by a new start.   *)

\* The password that comes with it was filed for it, and none is lost.
LEMMA AdoptKeeps ==
  ASSUME KeysOK, FormOK, NEW n \in Names, NEW p \in Profile, Adopt(n, p)
  PROVE  /\ KeysOK' /\ FormOK' /\ SecretsStayWithTheirTarget'
         /\ \A b \in Accounts : ring[b] # NoEntry => ring'[b] # NoEntry
<1>1. /\ name' = n /\ title' = n /\ target' = p.at /\ remember' = p.remember
      /\ given' = <<<<n, p.at>>, password'>>
  BY DEF Adopt
<1>2. p.at \in Targets /\ p.remember \in BOOLEAN
  BY DEF Profile
<1> DEFINE a == <<n, p.at>>
<1>3. a \in Accounts /\ Account(n, p.at) = a
  BY <1>2, AccountType
<1>4. given'[1] = a /\ given'[2] = password'
  BY <1>1
<1> HIDE DEF a
<1>5. CASE p.remember
  <2>1. LoadPassword(a, password')
    BY <1>3, <1>5 DEF Adopt
  <2>2. KeysOK' /\ password' \in Secret /\ (password' # Empty => password' \in filed'[a])
    BY <1>3, <2>1, LoadKeeps
  <2>3. FormOK'
    BY <1>1, <1>2, <2>2 DEF FormOK
  <2>4. SecretsStayWithTheirTarget'
    BY <1>4, <2>2 DEF SecretsStayWithTheirTarget
  <2>5. ring' = ring \/ (ring' = Set(ring, a, password') /\ password' # NoEntry)
    BY <2>1 DEF LoadPassword
  <2>6. \A b \in Accounts : ring[b] # NoEntry => ring'[b] # NoEntry
    <3>1. CASE ring' = ring
      BY <3>1
    <3>2. CASE ring' = Set(ring, a, password') /\ password' # NoEntry
      BY <3>2 DEF Set, KeysOK
    <3> QED
      BY <2>5, <3>1, <3>2
  <2> QED
    BY <2>2, <2>3, <2>4, <2>6
<1>6. CASE ~p.remember
  <2>1. password' = Empty /\ UNCHANGED <<ring, oldRing, filed>>
    BY <1>6 DEF Adopt, keys
  <2>2. KeysOK'
    BY <2>1 DEF KeysOK
  <2>3. FormOK'
    BY <1>1, <1>2, <2>1 DEF FormOK, Secret
  <2> QED
    BY <1>4, <2>1, <2>2, <2>3 DEF SecretsStayWithTheirTarget
<1> QED
  BY <1>2, <1>5, <1>6

LEMMA NoSecretLost ==
  ASSUME ProfilesInv, \A b \in Accounts : ring[b] # NoEntry => ring'[b] # NoEntry
  PROVE  SecretsKept
BY ItemAccount DEF SecretsKept, ProfilesInv

LEMMA LoadProfileStep ==
  ASSUME ProfilesInv, NEW n \in Names, LoadProfile(n) PROVE Step
<1>1. n \in DOMAIN items /\ Adopt(n, items[n]) /\ UNCHANGED <<items, file>>
  BY DEF LoadProfile, disk
<1>2. items[n] \in Profile
  BY <1>1, ItemAccount DEF ProfilesInv
<1>3. DiskOK'
  BY <1>1 DEF ProfilesInv, DiskOK, Saved
<1>4. /\ KeysOK' /\ FormOK' /\ SecretsStayWithTheirTarget'
      /\ \A b \in Accounts : ring[b] # NoEntry => ring'[b] # NoEntry
  BY <1>1, <1>2, AdoptKeeps DEF ProfilesInv
<1> QED
  BY <1>1, <1>3, <1>4, NoSecretLost, ItemsSame DEF Step, ProfilesInv

LEMMA RestartStep ==
  ASSUME ProfilesInv, Restart PROVE Step
<1>1. PICK f \in {file, Nobody} :
        /\ items' = f.items /\ file' = file
        /\ IF f.last \in DOMAIN f.items THEN Adopt(f.last, f.items[f.last])
           ELSE /\ name' = NoName /\ title' = NoName /\ target' \in Targets
                /\ password' = Empty /\ remember' = FALSE
                /\ given' = Nothing /\ UNCHANGED <<ring, oldRing, filed>>
  BY DEF Restart, keys
<1>2. Saved(f.items) /\ (f.items = file.items \/ DOMAIN f.items = {})
  BY DEF ProfilesInv, DiskOK, Saved, Nobody
<1>3. DiskOK'
  BY <1>1, <1>2 DEF ProfilesInv, DiskOK, Saved
<1>4. QueriesKept
  BY <1>1, <1>2 DEF QueriesKept
<1>5. CASE f.last \in DOMAIN f.items
  <2>1. f.last \in Names /\ f.items[f.last] \in Profile
    BY <1>2, <1>5 DEF Saved
  <2>2. Adopt(f.last, f.items[f.last])
    BY <1>1, <1>5
  <2>3. /\ KeysOK' /\ FormOK' /\ SecretsStayWithTheirTarget'
        /\ \A b \in Accounts : ring[b] # NoEntry => ring'[b] # NoEntry
    BY <2>1, <2>2, AdoptKeeps DEF ProfilesInv
  <2> QED
    BY <1>3, <1>4, <2>3, NoSecretLost DEF Step, ProfilesInv
<1>6. CASE f.last \notin DOMAIN f.items
  <2>1. /\ name' = NoName /\ title' = NoName /\ target' \in Targets
        /\ password' = Empty /\ remember' = FALSE
        /\ given' = Nothing /\ UNCHANGED <<ring, oldRing, filed>>
    BY <1>1, <1>6
  <2>2. KeysOK' /\ FormOK'
    BY <2>1 DEF ProfilesInv, KeysOK, FormOK, Secret
  <2> QED
    BY <1>3, <1>4, <2>1, <2>2, NothingGiven, KeysSame DEF Step, ProfilesInv
<1> QED
  BY <1>5, <1>6

-----------------------------------------------------------------------------
(* The theorems.                                                           *)

LEMMA Initially == ProfilesInit => ProfilesInv
<1> SUFFICES ASSUME ProfilesInit PROVE ProfilesInv
  OBVIOUS
<1>1. PICK h \in Targets, n \in Names :
        LET one == [x \in {n} |-> [at |-> h, remember |-> TRUE, queries |-> FALSE]]
        IN /\ file \in {Nobody, [items |-> one, last |-> n]}
           /\ oldRing = [a \in Accounts |-> IF file # Nobody /\ a = Account(n, h)
                                            THEN Legacy ELSE NoEntry]
  BY DEF ProfilesInit
<1>2. /\ items = <<>> /\ ring = [a \in Accounts |-> NoEntry]
      /\ filed = [a \in Accounts |-> {oldRing[a]} \ {NoEntry}]
      /\ name = NoName /\ target \in Targets /\ password = Empty
      /\ title = NoName /\ remember = FALSE /\ given = Nothing
  BY DEF ProfilesInit
<1>3. Saved(items)
  BY <1>2 DEF Saved
<1>4. Saved(file.items)
  <2>1. CASE file = Nobody
    BY <2>1 DEF Nobody, Saved
  <2>2. CASE file # Nobody
    <3>1. file.items = [x \in {n} |-> [at |-> h, remember |-> TRUE, queries |-> FALSE]]
      <4>1. file = [items |-> [x \in {n} |-> [at |-> h, remember |-> TRUE, queries |-> FALSE]],
                    last |-> n]
        BY <1>1, <2>2, Zenon
      <4> QED
        BY <4>1, Zenon
    <3> QED
      BY <3>1 DEF Saved, Profile
  <2> QED
    BY <2>1, <2>2
<1>5. oldRing \in [Accounts -> Secret \cup {NoEntry}]
  BY <1>1 DEF Secret
<1>6. KeysOK
  BY <1>2, <1>5, SecretsAreEntries DEF KeysOK
<1>7. FormOK
  BY <1>2 DEF FormOK, Secret
<1>8. SecretsStayWithTheirTarget
  BY <1>2 DEF SecretsStayWithTheirTarget, Nothing
<1> QED
  BY <1>3, <1>4, <1>6, <1>7, <1>8 DEF ProfilesInv, DiskOK

LEMMA StepKeeps == ProfilesInv /\ [ProfilesNext]_profileVars => Step
<1> SUFFICES ASSUME ProfilesInv, [ProfilesNext]_profileVars PROVE Step
  OBVIOUS
<1>1. CASE EditForm
  BY <1>1, EditFormStep
<1>2. CASE TickRemember
  BY <1>2, TickRememberStep
<1>3. CASE SaveProfile
  BY <1>3, SaveProfileStep
<1>4. CASE DeleteProfile
  BY <1>4, DeleteProfileStep
<1>5. CASE EditQueries
  BY <1>5, EditQueriesStep
<1>6. CASE Restart
  BY <1>6, RestartStep
<1>7. ASSUME NEW n \in Names, LoadProfile(n) PROVE Step
  BY <1>7, LoadProfileStep
<1>8. CASE UNCHANGED profileVars
  <2>1. UNCHANGED <<items, file, ring, oldRing, filed, name, target, password, title, remember, given>>
    BY <1>8 DEF profileVars
  <2>2. ProfilesInv'
    BY <2>1 DEF ProfilesInv, KeysOK, DiskOK, Saved, FormOK, SecretsStayWithTheirTarget
  <2> QED
    BY <2>1, <2>2, ItemsSame, KeysSame DEF Step
<1> QED
  BY <1>1, <1>2, <1>3, <1>4, <1>5, <1>6, <1>7, <1>8 DEF ProfilesNext

LEMMA Invariant == ProfilesSpec => []ProfilesInv
<1>1. ProfilesInv /\ [ProfilesNext]_profileVars => ProfilesInv'
  BY StepKeeps DEF Step
<1> QED
  BY <1>1, Initially, PTL DEF ProfilesSpec

\* For any profiles and whatever fails: a password that comes back was filed
\* under the very name and target it is loaded for.
THEOREM SecretsStay == ProfilesSpec => []SecretsStayWithTheirTarget
<1>1. ProfilesInv => SecretsStayWithTheirTarget
  BY DEF ProfilesInv
<1> QED
  BY <1>1, Invariant, PTL

\* Saving a connection over a profile, under whatever name, keeps its queries.
THEOREM ResavingKeepsQueries == ProfilesSpec => QueriesSurvive
<1>1. ProfilesInv /\ [ProfilesNext]_profileVars =>
        [\A n \in DOMAIN items \cap DOMAIN items' :
           items[n].queries /\ ~items'[n].queries =>
             items' \in {[items EXCEPT ![n].queries = FALSE], file.items}]_profileVars
  BY StepKeeps DEF Step, QueriesKept
<1> QED
  BY <1>1, Invariant, PTL DEF ProfilesSpec, QueriesSurvive

\* Nothing done to one profile takes the password of another.
THEOREM OthersSecretsStay == ProfilesSpec => OthersKeepTheirSecret
<1>1. ProfilesInv /\ [ProfilesNext]_profileVars =>
        [\A n \in DOMAIN items :
           LET a == <<n, items[n].at>>
           IN items[n].remember /\ ring[a] # NoEntry /\ ring'[a] = NoEntry =>
                \/ n \notin DOMAIN items' \/ ~items'[n].remember
                \/ <<name, target>> = a /\ remember /\ ~remember']_profileVars
  BY StepKeeps DEF Step, SecretsKept
<1> QED
  BY <1>1, Invariant, PTL DEF ProfilesSpec, OthersKeepTheirSecret
=============================================================================
