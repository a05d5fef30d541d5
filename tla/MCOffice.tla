------------------------------ MODULE MCOffice ------------------------------
(***************************************************************************)
(* The instance of Office that TLC checks, beside what Office.cfg gives.   *)
(***************************************************************************)
EXTENDS Office, TLC

MCSymmetry == Permutations(Worker) \cup Permutations(Thing) \cup Permutations(Other)

MCPlans == {<<10000>>, <<5000, 5000>>, <<3333, 3333, 3334>>, <<1, 9999>>,
            <<7000, 1500, 1500>>, <<2500, 2500, 2500, 2500>>}

MCDiscounts == {<<"fixed", 1>>, <<"fixed", 4>>, <<"percent", 10000>>, <<"percent", 2500>>}

MCAlike == {<<"person", "person">>}

MCFile == LET row(who) == [who |-> who, valid |-> who # None]
          IN  {<<row("person")>>, <<row("person"), row(None), row("person")>>}

MCBranchCode == {<<"B">>, <<>>}

MCPattern == {<<"S", "BRANCH", "SEQ:1">>, <<"S", "SEQ:1">>, <<"S", "YYYY", "SEQ:1">>,
              <<"S", "FY", "SEQ:2">>, <<"S", "1", "SEQ:1">>}

MCCalendar == <<[year |-> 1, month |-> 7, day |-> 1], [year |-> 2, month |-> 6, day |-> 1]>>

MCFiscalYearStart == <<7, 1>>

MCDueDate == [new |-> 4, late |-> -4]

MCCreatedOn == [new |-> 1, late |-> -5]

MCTitle == {<<"a">>, <<"a", 2>>}
=============================================================================
