------------------------------ MODULE MCUpdate ------------------------------
(* A small instance of Update for TLC: version 2 is installed, 3 is a          *)
(* pre-release of 4.                                                           *)
EXTENDS Update

Tag(version) == [form |-> "tag", version |-> version]
Stable(version) == [tag |-> Tag(version), draft |-> FALSE, prerelease |-> FALSE,
                    archives |-> 1, sums |-> 1]
MCReleases ==
    { Stable(version) : version \in {1, 2, 3, 4} } \cup
    { [Stable(4) EXCEPT !.draft = TRUE], [Stable(4) EXCEPT !.archives = 0],
      [Stable(4) EXCEPT !.sums = 2], [Stable(4) EXCEPT !.tag.form = "build"] }

MCInvocations ==
    { [mode |-> "check", yes |-> FALSE, version |-> NoText],
      [mode |-> "install", yes |-> FALSE, version |-> NoText],
      [mode |-> "install", yes |-> TRUE, version |-> NoText],
      [mode |-> "install", yes |-> TRUE, version |-> [form |-> "bare", version |-> 1]] }

Works(version) == [name |-> "ovpnlane", regular |-> TRUE, size |-> "fits",
                   binary |-> [version |-> version, runs |-> "well"]]
MCArchives ==
    { <<Works(version)>> : version \in {1, 3, 4} } \cup
    { <<Works(4), Works(1)>>, <<[Works(4) EXCEPT !.regular = FALSE]>>,
      <<[Works(4) EXCEPT !.size = "empty", !.binary.runs = "fails"]>>,
      <<[Works(4) EXCEPT !.binary.runs = "hangs"]>> }

MCManifests == [wellformed : {TRUE}, name : {4}, digest : MCArchives \ {<<Works(3)>>}]
          \cup [wellformed : {TRUE}, name : {1, 3}, digest : {<<Works(1)>>, <<Works(3)>>}]
          \cup [wellformed : {FALSE}, name : {4}, digest : {<<Works(4)>>}]
=============================================================================
