------------------------------ MODULE MCRelease ------------------------------
(* Archives, installations and documents with up to two faults in all. *)
EXTENDS ReleasePipeline

CONSTANTS c1, c2, c3

AllContents == {c1, c2, c3}
AllPaths == {"mod", "extra", "MOD", "METADATA", "INSTALLER", "RECORD", "script", "other"}

\* Other spellings: the script, the module by way of its directory's parent,
\* a file of another package, and a path out of the virtual environment.
AllSpellings == {"../script", "../mod", "../other", "../../out"}

Leading ==
  [name \in {"mod", "extra", "MOD", "METADATA", "INSTALLER", "RECORD"} \cup AllSpellings |->
     CASE name = "../script"  -> "script"
       [] name = "../mod"     -> "mod"
       [] name = "../other"   -> "other"
       [] name = "../../out" -> Absent
       [] OTHER -> name]

\* The names of entries: of the wheel, whose package has a file and its twin
\* in capitals, and of the source distribution, whose root is src.
AllSplit ==
  [name \in {"mod", "MOD", "extra", "METADATA", "INSTALLER", "RECORD", "other", "src", "src/mod",
             "src/MOD", "src/mod/sub", "src/doc", "src/con", "SRC/new", "src/../new"} |->
     CASE name \in {"mod", "MOD", "extra"} -> <<"pkg", name>>
       [] name \in {"METADATA", "INSTALLER", "RECORD"} -> <<"info", name>>
       [] name = "src/mod"     -> <<"src", "mod">>
       [] name = "src/MOD"     -> <<"src", "MOD">>
       [] name = "src/mod/sub" -> <<"src", "mod", "sub">>
       [] name = "src/doc"     -> <<"src", "doc">>
       [] name = "src/con"     -> <<"src", "con">>
       [] name = "SRC/new"     -> <<"SRC", "new">>
       [] name = "src/../new"  -> <<"src", "..", "new">>
       [] OTHER -> <<name>>]

AllCanonical == DOMAIN AllSplit \ {"src/../new"}

AllFolded ==
  [part \in UNION {ToSet(AllSplit[name]) : name \in DOMAIN AllSplit} |->
     CASE part = "MOD" -> "mod" [] part = "SRC" -> "src" [] OTHER -> part]

AllPortable == DOMAIN AllFolded \ {"con", ".."}

ModulePath == {<<"pkg", "mod">>}
ModuleRelative == {<<"mod">>}

Entry(name, kind, size) == [name |-> name, kind |-> kind, size |-> size]

\* The entries of a wheel with these files, the capitals first or last.
EntriesOf(files, order) ==
  LET there == SelectSeq(order, LAMBDA name : files[name] # Absent)
  IN  [i \in DOMAIN there |-> Entry(there[i], "file", 1)]

Usual == <<"mod", "MOD", "extra", "INSTALLER", "other", "METADATA", "RECORD">>

Row(name, claim) == [name |-> name, claim |-> claim]

\* The wheel whose module holds c, and one with each fault.
Filed(wheel) == [wheel EXCEPT !.listing = EntriesOf(wheel.files, Usual)]

GoodWheel(c) ==
  Filed([files |-> [name \in Members \cup {"other"} |->
                      CASE name = "mod" -> c [] name = "METADATA" -> c2 [] name = "RECORD" -> c3 [] OTHER -> Absent],
         rows  |-> <<Row("mod", c), Row("METADATA", c2), Row("RECORD", NoClaim)>>,
         listing |-> <<>>])

FaultyWheels ==
  LET good == GoodWheel(c1)
      twin == Filed([good EXCEPT !.files["MOD"] = c3, !.rows = Append(@, Row("MOD", c3))])
  IN  {[good EXCEPT !.listing[1].kind = kind] : kind \in {"link", "special"}}
        \cup {[good EXCEPT !.listing[1].size = 4],
              [good EXCEPT !.listing = [i \in DOMAIN @ |-> [@[i] EXCEPT !.size = 2]]]}
        \cup {[good EXCEPT !.listing = Append(@, entry)] :
                entry \in {Entry("mod", "file", 1), Entry("src", "directory", 0), Entry("MOD", "directory", 0)}}
        \cup {twin, [twin EXCEPT !.listing = Reverse(@)]}
        \cup {[good EXCEPT !.files["METADATA"] = c1, !.rows[2].claim = c1]}
        \cup {Filed([good EXCEPT !.files[name] = held]) :
                name \in DOMAIN good.files \ {"RECORD"}, held \in {c3, Absent}}
        \cup {[good EXCEPT !.rows = RemoveAt(good.rows, i)] : i \in 1..3}
        \cup {[good EXCEPT !.rows[i].claim = claim] : i \in 1..3, claim \in {c3, NoClaim, BadClaim}}
        \cup {[good EXCEPT !.rows = Append(@, row)] :
                row \in {Row("mod", c1), Row("extra", c1), Row("other", c1)}}
        \cup {Filed([good EXCEPT !.files["mod"] = Absent, !.rows = Tail(@)])}

\* A source distribution, one without entries for directories, and each with
\* an entry too many somewhere, without the file required, or too large.
GoodSource ==
  [listing |-> <<Entry("src", "directory", 0), Entry("src/mod", "file", 1), Entry("src/doc", "file", 1)>>]

FlatSource == [listing |-> Tail(GoodSource.listing)]

FaultySources ==
  LET own   == GoodSource.listing
      more  == {Entry(name, kind, 1) : name \in {"src/mod", "src/MOD", "src/mod/sub"}, kind \in {"file", "directory"}}
                 \cup {Entry(name, "file", 1) : name \in {"src", "SRC/new", "src/con", "src/../new"}}
                 \cup {Entry("other", "directory", 0), Entry("src/con", "special", 1)}
  IN  {[listing |-> InsertAt(own, i, entry)] : i \in {1, 2, 4}, entry \in more}
        \cup {[listing |-> RemoveAt(own, 2)], [listing |-> [own EXCEPT ![2].size = 4]],
              [listing |-> [own EXCEPT ![2].size = 3, ![3].size = 3]],
              [listing |-> Append(Append(own, Entry("src/mod/sub", "file", 1)), Entry("src/MOD", "directory", 0))]}

Build_(wheel, sdist) == [wheel |-> wheel, sdist |-> sdist]

AllBuilds ==
  {Build_(GoodWheel(c1), GoodSource), Build_(GoodWheel(c3), FlatSource)}
    \cup {Build_(wheel, GoodSource) : wheel \in FaultyWheels}
    \cup {Build_(GoodWheel(c1), sdist) : sdist \in FaultySources}

\* What pip makes of a wheel, and each fault of an installation.
GoodInstall(wheel) ==
  [tree |-> [path \in AllPaths |->
               CASE path = "RECORD" -> c3
                 [] path = "INSTALLER" -> c1
                 [] path \in Members -> wheel.files[path]
                 [] OTHER -> c1],
   rows |-> SelectSeq(<<Row("mod", wheel.files["mod"]), Row("METADATA", wheel.files["METADATA"]),
                        Row("RECORD", NoClaim), Row("INSTALLER", c1), Row("../script", c1)>>,
                      LAMBDA row : row.claim # Absent),
   twins |-> 0]

FaultyInstalls(wheel) ==
  LET good == GoodInstall(wheel)
  IN  {[good EXCEPT !.twins = 1]}
        \cup {[good EXCEPT !.tree[path] = held] : path \in AllPaths, held \in {c1, c3, Absent, Odd}}
        \cup {[good EXCEPT !.rows = RemoveAt(@, i)] : i \in 1..5}
        \cup {[good EXCEPT !.rows[i].claim = claim] : i \in 1..5, claim \in {c3, NoClaim, BadClaim}}
        \cup {[good EXCEPT !.rows = Append(@, Row(name, NoClaim))] :
                name \in Members \cup AllSpellings}
        \* a changed module whose RECORD agrees with it, and an added one
        \cup {[good EXCEPT !.tree["mod"] = c2, !.rows[1].claim = c2],
              [good EXCEPT !.tree["extra"] = c1, !.rows = Append(@, Row("extra", c1))],
              [good EXCEPT !.rows[1].name = "../mod"]}

AllInstalls(wheel) ==
  IF wheel \in {GoodWheel(c1), GoodWheel(c3)} THEN {GoodInstall(wheel)} \cup FaultyInstalls(wheel)
  ELSE {GoodInstall(wheel)}

\* What Syft says of an installation, and each fault of its document.  A bound
\* document has no element with the id "second" unless Syft wrote it.
GoodBill(venv) ==
  LET regular == {path \in AllPaths : venv.tree[path] \in Contents}
  IN  [sound |-> TRUE, pinned |-> TRUE, distinct |-> TRUE, packages |-> 1,
       files |-> [path \in regular |-> [name |-> path, sums |-> NoSums]],
       contains |-> [path \in regular |-> 0], describes |-> 0,
       dangling |-> FALSE, analyzed |-> FALSE, code |-> NoCode]

Named_(bill, id, name, sums) ==
  [bill EXCEPT !.files = [i \in {id} \cup DOMAIN @ |-> IF i = id THEN [name |-> name, sums |-> sums] ELSE @[i]],
               !.contains = [i \in {id} \cup DOMAIN @ |-> IF i = id THEN 0 ELSE @[i]]]

Without(bill, id) ==
  [bill EXCEPT !.files = [i \in DOMAIN @ \ {id} |-> @[i]],
               !.contains = [i \in DOMAIN @ \ {id} |-> @[i]]]

OtherBills(venv) ==
  LET good == GoodBill(venv)
      ids  == DOMAIN good.files
  IN  {[good EXCEPT !.sound = FALSE], [good EXCEPT !.pinned = FALSE], [good EXCEPT !.distinct = FALSE],
       [good EXCEPT !.packages = 0], [good EXCEPT !.packages = 2], [good EXCEPT !.dangling = TRUE],
       [good EXCEPT !.describes = 1], [good EXCEPT !.describes = 2],
       Named_(good, "second", "mod", c1), Named_(good, "second", NoName, c1)}
        \cup {Without(good, id) : id \in ids}
        \cup {[good EXCEPT !.contains[id] = n, !.files[id].sums = sums] :
                id \in ids, n \in 1..2, sums \in {NoSums, c1}}

AllScans(venv) ==
  IF venv \in {GoodInstall(GoodWheel(c)) : c \in {c1, c3}}
    THEN {GoodBill(venv)} \cup OtherBills(venv)
    ELSE {GoodBill(venv)}
=============================================================================
