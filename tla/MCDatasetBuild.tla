--------------------------- MODULE MCDatasetBuild ---------------------------
(* A slice of five works: a remake family, its sequel, two films of one    *)
(* name and a film with one version; one version is hidden, then shown.    *)
EXTENDS DatasetBuild

Row(work, version, title, language, year, actor, orig) ==
    [work |-> work, version |-> version, title |-> title, language |-> language,
     year |-> year, actor |-> actor, orig |-> orig]

Chandra ==
    [key |-> "chandra", id |-> "w1", franchise |-> "chandra", title |-> "Manichitra",
     language |-> "ml", year |-> 1993, hidden |-> {},
     versions |-> << Row("w1", "v1", "Manichitra", "ml", 1993, "Shobana", TRUE),
                     Row("w1", "v2", "Chandramukhi", "ta", 2005, "Rajini", FALSE),
                     Row("w1", "v3", "Apthamitra", "kn", 2004, "Soundarya", FALSE),
                     Row("w1", "v4", "Bhool", "hi", 2007, "Akshay", FALSE) >>,
     plots |-> << [version |-> "v1", text |-> <<"Manichitra", "haunts", "a house">>],
                  [version |-> "v4", text |-> <<"a", "locked room">>] >>]
Sequel ==
    [key |-> "chandra2", id |-> "w2", franchise |-> "chandra", title |-> "Chandramukhi 2",
     language |-> "ta", year |-> 2023, hidden |-> {},
     versions |-> << Row("w2", "v5", "Chandramukhi 2", "ta", 2023, "Lawrence", TRUE) >>,
     plots |-> <<>>]
DonOld ==
    [key |-> "don_1978", id |-> "w3", franchise |-> "don", title |-> "Don",
     language |-> "hi", year |-> 1978, hidden |-> {},
     versions |-> << Row("w3", "v6", "Don", "hi", 1978, "Amitabh", TRUE) >>, plots |-> <<>>]
DonNew ==
    [key |-> "don_2022", id |-> "w4", franchise |-> "don22", title |-> "Don",
     language |-> "ta", year |-> 2022, hidden |-> {},
     versions |-> << Row("w4", "v7", "Don", "ta", 2022, "Siva", TRUE) >>, plots |-> <<>>]

MCGraphs ==
    << <<[Chandra EXCEPT !.hidden = {"v4"}], Sequel, DonOld, DonNew>>,
       <<Chandra, Sequel, DonOld, DonNew>> >>
MCPerturbations == [t \in {"Manichitra", "Don"} |->
    IF t = "Don" THEN {"Dawn"} ELSE {"Manicheetra"}]
MCKeys == ("Manicheetra" :> "Manichitra")
MCDecoys == << [theme |-> <<"a robot", "sings">>, lang |-> "en"],
               [theme |-> <<"a talking boat">>, lang |-> "ta-latin"] >>
MCGolden == <<"GS", "plot">>
MCProtected == [golden |-> {MCGolden}, exemplars |-> {<<"example">>},
                negatives |-> {<<"held", "out">>}]
MCEntities == {"w1", "w2", "w3", "w4", "v1", "v2", "v3", "v4", "v5", "v6", "v7"}
MCSeeds == {42}
MCSplitSeed == 7
MCDraws == [s \in MCSeeds \cup {MCSplitSeed} |->
    [i \in 0..20 |-> [k \in 1..20 |-> (s * 7 + i * i * 11 + k * k * 5 + i * k * 3) % 101]]]
MCAnswers == {[faulty |-> 1..20, first |-> q[1], second |-> q[2]] : q \in
    {<<"echo", "echo">>, <<"register", "echo">>, <<"dated", "echo">>, <<"golden", "echo">>,
     <<"drop", "abstain">>, <<"twice", "noise">>, <<"stray", "bold">>, <<"bold", "embolden">>,
     <<"silent", "listed">>, <<"noise", "noise">>}}

\* As a table that is computed once.
MCDatasets == Tabulated @@ <<>>
=============================================================================
