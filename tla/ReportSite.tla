----------------------------- MODULE ReportSite -----------------------------
(***************************************************************************)
(* The pages of a report: those with a table run sort.js (CoverageTable),  *)
(* those with source code run prettify.js (PrettyPrint).  A browser runs   *)
(* one script at a time: while a slice of prettyPrint() is running the     *)
(* reader cannot do anything, and between two slices he may leave the      *)
(* page, with which its timers and variables are gone.                     *)
(***************************************************************************)
EXTENDS CoverageTable, PrettyPrint

CONSTANT ByTagName   \* the elements of a page by their names, in its order

(* External: getElementsByTagName returns each element of the name once,   *)
(* and those around an element are in its page.                            *)
ASSUME SiteAssumption ==
  /\ \A p \in Page, tag \in {"pre", "code", "xmp"} :
       /\ ByTagName[p][tag] \in Seq({n \in Node : Tag[n] = tag})
       /\ \A i, j \in DOMAIN ByTagName[p][tag] :
            ByTagName[p][tag][i] = ByTagName[p][tag][j] => i = j
  /\ \A p \in Page, n \in Node :
       LET here == UNION {{ByTagName[p][tag][i] : i \in DOMAIN ByTagName[p][tag]} :
                            tag \in {"pre", "code", "xmp"}}
       IN  n \in here => Outer[n] \subseteq here

siteVars == <<tableVars, printVars>>

SiteInit == TableInit /\ Fresh

(* onload="window['PR_TAB_WIDTH']=4;prettyPrint()"; tables have            *)
(* InitialSort.                                                            *)
OnLoad == /\ Width(page) = 0
          /\ PrettyPrint(ByTagName[page])
          /\ UNCHANGED tableVars

Prettify == PrintStep /\ UNCHANGED tableVars

Idle == phase # "running"

(* A page takes the place of the last one. *)
Leave == Idle /\ Renew

InTable == Idle /\ UNCHANGED printVars

SiteNext == \/ OnLoad
            \/ Prettify
            \/ InitialSort /\ InTable
            \/ \E i \in 1 .. Width(page) : Click(i) /\ InTable
            \/ \E l \in Link[page] : Follow(l) /\ Leave
            \/ Reload /\ Leave
            \/ GoBack /\ IF page' = page /\ back[Len(back)].at = page
                         THEN InTable ELSE Leave

(* The browser runs onload and the timers of a page that stays open. *)
SiteFairness == WF_siteVars(OnLoad) /\ WF_siteVars(Prettify)

SiteSpec == SiteInit /\ [][SiteNext]_siteVars /\ SiteFairness

-----------------------------------------------------------------------------
(* doWork: however often prettyPrint() pauses, it comes to its end, unless *)
(* the page is left.                                                       *)
PagesFinish == phase \in {"running", "waiting"} ~>
                 phase \in {"done", "failed", "loading"}

=============================================================================
