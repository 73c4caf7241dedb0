------------------------------ MODULE Profiles ------------------------------
(***************************************************************************)
(* Discovery of the profiles of OpenVPN Connect (src/src/connect.rs): the  *)
(* files of its profiles directory joined with the records of its          *)
(* config.json, the list shown, and the choice of one profile.             *)
(*                                                                         *)
(* Identifiers, names and user names are positive numbers: their order is  *)
(* the order of the list, and a name may equal another profile's           *)
(* identifier.  Zero stands for a value that is missing, no string, or     *)
(* blank (nonempty_string).                                                *)
(***************************************************************************)
EXTENDS Naturals, FiniteSetsExt, SequencesExt

NoProfile == [id |-> 0, name |-> 0, username |-> 0, saved_password |-> FALSE]

\* A profile that is a file of the user's is known by its path alone.
FileProfile(path) == [NoProfile EXCEPT !.id = path]

\* What config.json may be: absent, unreadable (or too large, or no JSON), or a
\* document, whose persist:root and status are objects or text that holds one.
\* `records` maps identifiers to the fields of their profiles.
Absent(file) == file.kind = "absent"
Readable(file) ==
    /\ file.kind = "document"
    /\ file.root \in {"object", "text", "none"} /\ file.status \in {"object", "text"}
    /\ file.profiles = "object"

NoRecord == [names |-> <<>>, username |-> 0, locked |-> 0, saved |-> FALSE]

Records == [names : Seq(Nat), username : Nat, locked : Nat, saved : BOOLEAN]
WellFormed(file) == Readable(file) => \A id \in DOMAIN file.records : file.records[id] \in Records

Record(file, id) ==
    IF ~Absent(file) /\ id \in DOMAIN file.records THEN file.records[id] ELSE NoRecord

\* Plausible bug: the last of the keys wins.
LastOf(names, default) ==
    LET given == { i \in DOMAIN names : names[i] # 0 }
    IN IF given = {} THEN default ELSE names[Max(given)]

\* find_map(nonempty_string), then unwrap_or or or_else.
FirstOf(names, default) ==
    LET given == { i \in DOMAIN names : names[i] # 0 }
    IN IF given = {} THEN default ELSE names[Min(given)]

\* Plausible bug: the record of a profile is looked up by its position.
ProfileOfAnother(file, id) ==
    LET record == Record(file, id + 1)
    IN [id |-> id, name |-> FirstOf(record.names, id),
        username |-> FirstOf(<<record.username, record.locked>>, 0),
        saved_password |-> record.saved]

ProfileOf(file, id) ==
    LET record == Record(file, id)
    IN [id |-> id, name |-> FirstOf(record.names, id),
        username |-> FirstOf(<<record.username, record.locked>>, 0),
        saved_password |-> record.saved]

\* A directory entry counts if it is a regular file named *.ovpn.  No two of them
\* differ in the case of that ending alone: the file systems of macOS ignore it.
IsProfile(entry) == entry.regular /\ entry.ovpn

Entries == [id : Nat \ {0}, regular : BOOLEAN, ovpn : BOOLEAN]
IsDirectory(entries) ==
    /\ entries \subseteq Entries /\ IsFiniteSet(entries)
    /\ \A d, e \in entries : IsProfile(d) /\ IsProfile(e) /\ d.id = e.id => d = e

Before(p, q) == p.name < q.name \/ (p.name = q.name /\ p.id < q.id)

Sorted(profiles) ==
    CHOOSE s \in [1 .. Cardinality(profiles) -> profiles] :
      \A i, j \in DOMAIN s : i < j => Before(s[i], s[j])

\* discover_in: the sorted list, or <<>> for an error.
Discover(entries, file) ==
    IF Absent(file) \/ Readable(file)
    THEN Sorted({ ProfileOf(file, entry.id) : entry \in { e \in entries : IsProfile(e) } })
    ELSE <<>>

\* Plausible bug: names take precedence over identifiers.
SelectByNameFirst(profiles, selector) ==
    LET named == { i \in DOMAIN profiles : profiles[i].name = selector }
        same == { i \in DOMAIN profiles : profiles[i].id = selector }
    IN IF named # {} THEN profiles[Min(named)]
       ELSE IF same # {} THEN profiles[Min(same)] ELSE NoProfile

\* select: an identifier, or else a name that only one profile has.
Select(profiles, selector) ==
    LET named == { i \in DOMAIN profiles : profiles[i].name = selector }
        same == { i \in DOMAIN profiles : profiles[i].id = selector }
    IN IF same # {} THEN profiles[Min(same)]
       ELSE IF \E i \in named : named = {i} THEN profiles[Min(named)] ELSE NoProfile

\* choose: `terminal` is whether the user can be asked, `typed` what he answers.
MayAsk(non_interactive, terminal) == ~non_interactive /\ terminal

Choose(profiles, selector, non_interactive, terminal, typed) ==
    IF selector # 0 THEN Select(profiles, selector)
    ELSE IF Len(profiles) = 1 THEN profiles[1]
    ELSE IF MayAsk(non_interactive, terminal) /\ typed \in DOMAIN profiles
         THEN profiles[typed] ELSE NoProfile

-----------------------------------------------------------------------------
(* What discovery and selection promise, for a directory `entries` of distinct
   identifiers. *)

\* `value` is that of the first key that has one, or else the default.
IsFirst(value, values, default) ==
    \/ value = default /\ \A i \in DOMAIN values : values[i] = 0
    \/ \E i \in DOMAIN values :
         value = values[i] /\ value # 0 /\ \A j \in 1 .. i - 1 : values[j] = 0

\* The list holds each profile file once, those of a name side by side and in one
\* order, so that a position typed means the same profile in the next run; its name
\* and its user name are those of its own record, in the order of their keys.
ListedOnce(entries, file) ==
    LET profiles == Discover(entries, file)
        files == { e.id : e \in { e \in entries : IsProfile(e) } }
    IN profiles # <<>> =>
         /\ Len(profiles) = Cardinality(files) /\ { p.id : p \in ToSet(profiles) } = files
         /\ \A i, j \in DOMAIN profiles : i < j =>
              /\ profiles[i].name <= profiles[j].name
              /\ profiles[i].name = profiles[j].name => profiles[i].id < profiles[j].id
         /\ \A i \in DOMAIN profiles : ~Absent(file) /\ profiles[i].id \in DOMAIN file.records =>
              LET record == file.records[profiles[i].id]
              IN /\ profiles[i].saved_password = record.saved
                 /\ IsFirst(profiles[i].name, record.names, profiles[i].id)
                 /\ IsFirst(profiles[i].username, <<record.username, record.locked>>, 0)

\* "IDs take precedence, so duplicate display names can always be resolved"
\* (connect.rs:149); a name selects only the one profile that has it.
Resolvable(profiles) ==
    /\ \A p \in ToSet(profiles) : Select(profiles, p.id) = p
    /\ \A p \in ToSet(profiles) : LET chosen == Select(profiles, p.name) IN
         \/ chosen.id = p.name
         \/ chosen = IF \E q \in ToSet(profiles) : q # p /\ q.name = p.name
                     THEN NoProfile ELSE p
=============================================================================
