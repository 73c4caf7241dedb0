--------------------------- MODULE MCCredentials ----------------------------
(* Small instances of Credentials and of Profiles for TLC. *)
EXTENDS Credentials

File(id) == [id |-> id, regular |-> TRUE, ovpn |-> TRUE]
SavedFor(user) == [names |-> <<0, 3>>, username |-> user, locked |-> 0, saved |-> TRUE]
Document(records) == [kind |-> "document", root |-> "text", status |-> "object",
                      profiles |-> "object", records |-> records]

\* Connect keeps two profiles; the password of the first is saved for
\* user 1, then for user 2, then no longer although its entry stays.
MCStorages ==
    { [entries |-> {File(1), File(2)}, file |-> Document(1 :> SavedFor(1)), passwords |-> 1 :> 1],
      [entries |-> {File(1), File(2)}, file |-> Document(1 :> SavedFor(2)), passwords |-> 1 :> 2],
      [entries |-> {File(1)}, file |-> [kind |-> "absent"], passwords |-> 1 :> 1] }

Plain == [connect |-> FALSE, selector |-> 1, username |-> 1, environment |-> 0,
          auth_file |-> FALSE, save_password |-> FALSE, non_interactive |-> FALSE,
          check |-> FALSE]
MCInvocations ==
    { [Plain EXCEPT !.save_password = TRUE, !.environment = Changed(1)],
      [Plain EXCEPT !.environment = First(1)],
      [Plain EXCEPT !.non_interactive = TRUE],
      [Plain EXCEPT !.auth_file = TRUE, !.username = 0],
      [Plain EXCEPT !.connect = TRUE, !.username = 0, !.save_password = TRUE],
      [Plain EXCEPT !.connect = TRUE, !.username = 2, !.save_password = TRUE],
      [Plain EXCEPT !.connect = TRUE, !.selector = 0, !.username = 0, !.check = TRUE] }

\* Directories with an entry that is no profile, also one named like a profile, and
\* every document about two profiles: names and identifiers from one small set.
MCDirectories == { {File(1), File(2), [id |-> i, regular |-> regular, ovpn |-> ~regular]} :
                     i \in {2, 3}, regular \in BOOLEAN }
             \cup { {File(i) : i \in ids} : ids \in SUBSET (1 .. 3) }
MCRecords == [names : { <<a, b>> : a, b \in 0 .. 3 }, username : {1}, locked : {0},
            saved : BOOLEAN]
MCUserRecords == [names : {<<0, 3>>}, username : {0, 1}, locked : {0, 2}, saved : BOOLEAN]
MCFiles == { [kind |-> "absent"], [kind |-> "unreadable"] }
    \cup { [Document(<<>>) EXCEPT !.root = r, !.status = s, !.profiles = o] :
             r \in {"text", "object", "none", "garbled"},
             s \in {"text", "object", "garbled"}, o \in {"object", "missing"} }
    \cup { Document(<<a, b>>) : a, b \in MCRecords }
    \cup { Document(<<a, b>>) : a, b \in MCUserRecords }
=============================================================================
