------------------------------- MODULE Profiles -------------------------------
(***************************************************************************)
(* Saved connections, src/profiles.rs and the profile bar of src/app.rs:    *)
(* the form, the profiles in memory, the file they are written to and the   *)
(* credential store of the operating system, any call of which may fail.   *)
(* A target stands for user, host and port.                                *)
(***************************************************************************)
EXTENDS Naturals, FiniteSets

CONSTANTS
  Names,      \* profile names
  Targets,    \* user@host:port
  Passwords,  \* what the user types
  Legacy,     \* a password filed before the application was renamed
  NoName,     \* an empty name
  Empty,      \* an empty password
  NoEntry,    \* an account that the credential store does not know
  Faults,     \* whether the credential store and the file may fail
  MaxActs     \* bound: launches and what the user does

ASSUME ProfilesAssumption ==
  /\ NoName \notin Names /\ Targets # {}
  /\ NoEntry \notin Passwords \cup {Legacy, Empty}
  /\ Faults \in BOOLEAN /\ MaxActs \in Nat

VARIABLES
  items,    \* Profiles::items, by name
  lastUsed, \* Profiles::last_used
  file,     \* profiles.json: [items, last]
  ring,     \* the credential store: a password or NoEntry for each account
  oldRing,  \* the same under the legacy service name
  name,     \* cfg.name: of the profile last loaded or saved
  target,   \* cfg.user, cfg.host, cfg.port
  password, \* cfg.password
  title,    \* App::profile_name, the text box
  remember, \* App::remember_password
  acts,     \* things done so far, 0 before the first launch
  filed,    \* history: passwords ever filed for a name and a target
  given     \* history: the account and password the store last gave back

profileVars == <<items, lastUsed, file, ring, oldRing, name, target, password,
                 title, remember, acts, filed, given>>
form == <<name, target, password, title, remember>>
disk == <<items, lastUsed, file>>
keys == <<ring, oldRing, filed>>

Accounts == (Names \cup {NoName}) \X Targets
Profile == [at : Targets, remember : BOOLEAN, queries : BOOLEAN]
Nothing == <<NoName, Empty>>
Nobody == [items |-> <<>>, last |-> NoName]

\* Mutant: the host is no part of the key.
AccountByName(n, h) == <<n, CHOOSE g \in Targets : TRUE>>

\* account(): the name and the target.
Account(n, h) == <<n, h>>
Mine == Account(name, target)

\* An install from before the rename may have a profile and its password.
ProfilesInit ==
  /\ \E h \in Targets, n \in Names :
       LET one == [x \in {n} |-> [at |-> h, remember |-> TRUE, queries |-> FALSE]]
       IN /\ file \in {Nobody, [items |-> one, last |-> n]}
          /\ oldRing = [a \in Accounts |-> IF file # Nobody /\ a = Account(n, h)
                                           THEN Legacy ELSE NoEntry]
  /\ items = <<>> /\ lastUsed = NoName
  /\ ring = [a \in Accounts |-> NoEntry]
  /\ filed = [a \in Accounts |-> {oldRing[a]} \ {NoEntry}]
  /\ name = NoName /\ target \in Targets /\ password = Empty
  /\ title = NoName /\ remember = FALSE /\ acts = 0 /\ given = Nothing

\* One more thing is done; the application runs.
Act == acts \in 1..MaxActs-1 /\ acts' = acts + 1 /\ given' = Nothing

-----------------------------------------------------------------------------
(* The credential store.                                                   *)

Set(r, a, p) == [r EXCEPT ![a] = p]

\* load_password: the stored password, else the one filed under the old service
\* name, which is filed again under the new one.  A read that fails looks like
\* an account without a password.
LoadPassword(a, p) ==
  /\ \/ p = ring[a] /\ p # NoEntry /\ UNCHANGED ring
     \/ /\ ring[a] = NoEntry \/ Faults
        /\ p = oldRing[a] /\ p # NoEntry
        /\ ring' = Set(ring, a, p) \/ (Faults /\ UNCHANGED ring)
     \/ /\ (ring[a] = NoEntry /\ oldRing[a] = NoEntry) \/ Faults
        /\ p = Empty /\ UNCHANGED ring
  /\ UNCHANGED <<oldRing, filed>>

\* forget_password: either entry may refuse to go.
Forget(a) ==
  /\ ring' = Set(ring, a, NoEntry) \/ (Faults /\ UNCHANGED ring)
  /\ oldRing' = Set(oldRing, a, NoEntry) \/ (Faults /\ UNCHANGED oldRing)
  /\ UNCHANGED filed

\* persist_profiles: the file is written whole, or a failure is only logged.
Persist ==
  file' = [items |-> items', last |-> lastUsed'] \/ (Faults /\ UNCHANGED file)

-----------------------------------------------------------------------------
(* The form.                                                               *)

EditForm ==
  /\ Act
  /\ \/ target' \in Targets \ {target} /\ UNCHANGED <<password, title>>
     \/ password' \in Passwords \ {password} /\ UNCHANGED <<target, title>>
     \/ title' \in Names \ {title} /\ UNCHANGED <<target, password>>
  /\ UNCHANGED <<disk, keys, name, remember>>

\* The checkbox; unticking it forgets the password of the account in the form.
TickRemember ==
  /\ Act /\ remember' = ~remember
  /\ IF remember THEN Forget(Mine) ELSE UNCHANGED keys
  /\ UNCHANGED <<disk, name, target, password, title>>

\* Mutant: the new profile takes the slot as it is, with no queries.
UpsertFresh(n, p) ==
  items' = [x \in DOMAIN items \cup {n} |-> IF x = n THEN p ELSE items[x]]

\* upsert: saved queries of the old profile survive.
Upsert(n, p) ==
  items' = [x \in DOMAIN items \cup {n} |->
              IF x # n THEN items[x]
              ELSE IF n \in DOMAIN items THEN [p EXCEPT !.queries = items[n].queries] ELSE p]

\* save_profile: a password that cannot be stored unticks the box.
SaveProfile ==
  /\ Act /\ title # NoName
  /\ name' = title
  /\ \/ /\ remember /\ UNCHANGED <<oldRing, remember>>
        /\ ring' = Set(ring, Account(title, target), password)
        /\ filed' = [filed EXCEPT ![<<title, target>>] = @ \cup {password}]
     \/ remember /\ Faults /\ remember' = FALSE /\ UNCHANGED keys
     \/ ~remember /\ Forget(Account(title, target)) /\ UNCHANGED remember
  /\ Upsert(title, [at |-> target, remember |-> remember', queries |-> FALSE])
  /\ lastUsed' = title /\ Persist
  /\ UNCHANGED <<target, password, title>>

\* What load_profile and App::new do with a profile.
Adopt(n, p) ==
  /\ name' = n /\ title' = n
  /\ target' = p.at /\ remember' = p.remember
  /\ IF p.remember THEN LoadPassword(Account(n, p.at), password')
     ELSE password' = Empty /\ UNCHANGED keys
  /\ given' = <<<<n, p.at>>, password'>>

LoadProfile(n) ==
  /\ acts \in 1..MaxActs-1 /\ acts' = acts + 1 /\ n \in DOMAIN items
  /\ Adopt(n, items[n])
  /\ UNCHANGED disk

\* Mutant: the password of the form's account goes, whoever is deleted.
DeleteProfileOfForm ==
  /\ Act /\ title \in DOMAIN items
  /\ items' = [x \in DOMAIN items \ {title} |-> items[x]]
  /\ lastUsed' = IF lastUsed = title THEN NoName ELSE lastUsed
  /\ Forget(Mine) /\ Persist
  /\ UNCHANGED form

\* delete_profile: the button is for the profile named in the text box.
DeleteProfile ==
  /\ Act /\ title \in DOMAIN items
  /\ items' = [x \in DOMAIN items \ {title} |-> items[x]]
  /\ lastUsed' = IF lastUsed = title THEN NoName ELSE lastUsed
  /\ Forget(Account(title, items[title].at)) /\ Persist
  /\ UNCHANGED form

\* save_query and delete_query, under the profile named in the text box.
EditQueries ==
  /\ Act /\ title \in DOMAIN items
  /\ items' = [items EXCEPT ![title].queries = ~@]
  /\ UNCHANGED lastUsed /\ Persist
  /\ UNCHANGED <<keys, form>>

\* The application is closed and started: Profiles::load, App::new.  A file
\* that cannot be read counts as none.
Restart ==
  /\ acts < MaxActs /\ acts' = acts + 1
  /\ \E f \in IF Faults THEN {file, Nobody} ELSE {file} :
       /\ items' = f.items /\ lastUsed' = f.last
       /\ IF f.last \in DOMAIN f.items THEN Adopt(f.last, f.items[f.last])
          ELSE /\ name' = NoName /\ title' = NoName /\ target' \in Targets
               /\ password' = Empty /\ remember' = FALSE
               /\ given' = Nothing /\ UNCHANGED keys
  /\ UNCHANGED file

ProfilesNext ==
  \/ EditForm \/ TickRemember \/ SaveProfile \/ DeleteProfile \/ EditQueries
  \/ Restart \/ \E n \in Names : LoadProfile(n)

ProfilesSpec == ProfilesInit /\ [][ProfilesNext]_profileVars

-----------------------------------------------------------------------------
(* What the profiles promise.                                              *)

\* README.md:110: "keyed by profile name and target -- so pointing a profile at
\* another host will not hand back the old host's secret".  A password that the
\* store gives back was filed for that very name and target.
SecretsStayWithTheirTarget ==
  given[2] # Empty => given[2] \in filed[given[1]]

\* README.md:106: "re-saving a connection never drops its queries".  Nothing but
\* deleting them loses the queries of a profile, except starting again from a
\* file that was written before them.
QueriesSurvive ==
  [][\A n \in DOMAIN items \cap DOMAIN items' :
       items[n].queries /\ ~items'[n].queries =>
         items' \in {[items EXCEPT ![n].queries = FALSE], file.items}]_profileVars

\* The password of a profile that remembers it goes only with that profile, or
\* when it is saved without, or by unticking the box with that account in the
\* form: deleting one profile does not take the password of another.
OthersKeepTheirSecret ==
  [][\A n \in DOMAIN items :
       LET a == <<n, items[n].at>>
       IN items[n].remember /\ ring[a] # NoEntry /\ ring'[a] = NoEntry =>
            \/ n \notin DOMAIN items' \/ ~items'[n].remember
            \/ <<name, target>> = a /\ remember /\ ~remember']_profileVars

\* README.md:112: "Untick it, or delete the profile, and the stored secret is
\* removed."
DeletedSecretsAreGone ==
  [][\A n \in DOMAIN items \ DOMAIN items' : title' = n =>
       \A h \in Targets : ring'[<<n, h>>] = NoEntry]_profileVars
=============================================================================
