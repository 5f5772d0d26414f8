----------------------------- MODULE WineSetup -----------------------------
(***************************************************************************)
(* Setting up a new Windows prefix (run_wineboot_init): wineboot, the font *)
(* registry, and the Mono package, which is downloaded once into a cache   *)
(* that all prefixes share: to <name>.tmp, then renamed.  Several prefixes *)
(* may be set up at once, and a setup may die at any step.                 *)
(***************************************************************************)
EXTENDS Naturals, FiniteSets

CONSTANTS Setups \* processes that create a Windows prefix

VARIABLES at,      \* at[s]: the step of setup s
          msi,     \* the package under its name: "none", "partial" or "whole"
          tmp,     \* the file being downloaded: "none", "partial" or "whole"
          fetched, \* setups whose curl has the .tmp file open
          installed, \* installed[s]: the package s gave to msiexec
          single   \* no download began between another's begin and its rename so far

vars == <<at, msi, tmp, fetched, installed, single>>

Steps == {"new", "boot", "fonts", "mono", "fetch", "rename", "install", "over"}
Package == {"none", "partial", "whole"}

TypeOK == /\ at \in [Setups -> Steps] /\ msi \in Package /\ tmp \in Package
          /\ fetched \subseteq Setups /\ installed \in [Setups -> Package] /\ single \in BOOLEAN

Init == /\ at = [s \in Setups |-> "new"] /\ msi = "none" /\ tmp = "none" /\ fetched = {}
        /\ installed = [s \in Setups |-> "none"] /\ single = TRUE

Goto(s, from, to) == at[s] = from /\ at' = [at EXCEPT ![s] = to]

\* resolve_wineboot() finds the program, or there is no setup at all.
FindWineboot(s) == /\ \E next \in {"boot", "over"} : Goto(s, "new", next)
                   /\ UNCHANGED <<msi, tmp, fetched, installed, single>>
\* wineboot --init: a failure ends the setup.
Wineboot(s) == /\ \E next \in {"fonts", "over"} : Goto(s, "boot", next)
               /\ UNCHANGED <<msi, tmp, fetched, installed, single>>
\* import_windows_font_registry(): its outcome does not matter.
ImportFonts(s) == Goto(s, "fonts", "mono") /\ UNCHANGED <<msi, tmp, fetched, installed, single>>

\* ensure_wine_mono_msi_cached(): a package that is not empty is taken.
UseCached(s) == /\ msi # "none" /\ Goto(s, "mono", "install")
                /\ UNCHANGED <<msi, tmp, fetched, installed, single>>
NoCurl(s) == Goto(s, "mono", "over") /\ UNCHANGED <<msi, tmp, fetched, installed, single>>
\* Someone is between the begin of a download and its rename.
Fetching == fetched # {} \/ \E q \in Setups : at[q] \in {"fetch", "rename"}
\* curl truncates the file it writes.
BeginFetch(s) == /\ msi = "none" /\ Goto(s, "mono", "fetch") /\ tmp' = "partial"
                 /\ fetched' = fetched \cup {s} /\ single' = (single /\ ~Fetching)
                 /\ UNCHANGED <<msi, installed>>
FetchDone(s) == /\ Goto(s, "fetch", "rename") /\ fetched' = fetched \ {s}
                \* what another curl still writes to stays incomplete
                /\ tmp' = IF tmp = "none" \/ fetched # {s} THEN tmp ELSE "whole"
                /\ msi' = IF tmp = "none" /\ fetched = {s} THEN "whole" ELSE msi
                /\ UNCHANGED <<installed, single>>
\* Mutant: an incomplete download is kept under the package's name.
FetchFailsKeeping(s) == /\ Goto(s, "fetch", "over") /\ fetched' = fetched \ {s} /\ tmp' = "none"
                        /\ msi' = tmp /\ UNCHANGED <<installed, single>>
FetchFails(s) == /\ Goto(s, "fetch", "over") /\ fetched' = fetched \ {s} /\ tmp' = "none"
                 /\ UNCHANGED <<msi, installed, single>>
\* The rename fails when someone else renamed or removed the file.
Rename(s) == /\ Goto(s, "rename", IF tmp = "none" THEN "over" ELSE "install")
             /\ msi' = IF tmp = "none" THEN msi ELSE tmp
             /\ tmp' = "none" /\ UNCHANGED <<fetched, installed, single>>

\* install_wine_mono(): without a wine binary nothing happens.
Install(s) == /\ Goto(s, "install", "over")
              /\ \E found \in BOOLEAN : installed' = [installed EXCEPT ![s] = IF found THEN msi ELSE @]
              /\ UNCHANGED <<msi, tmp, fetched, single>>
\* The process dies; curl, its child, goes on alone or dies with it.
Dies(s) == /\ at[s] # "over" /\ at' = [at EXCEPT ![s] = "over"]
           /\ \E gone \in SUBSET {s} : fetched' = fetched \ gone
           /\ UNCHANGED <<msi, tmp, installed, single>>
OrphanEnds(s) == /\ at[s] = "over" /\ s \in fetched /\ fetched' = fetched \ {s}
                 /\ \E whole \in BOOLEAN : tmp' = IF whole /\ tmp # "none" /\ fetched = {s} THEN "whole" ELSE tmp
                 /\ UNCHANGED <<at, msi, installed, single>>

Next == \E s \in Setups : \/ FindWineboot(s) \/ Wineboot(s) \/ ImportFonts(s) \/ UseCached(s) \/ NoCurl(s)
                          \/ BeginFetch(s) \/ FetchDone(s) \/ FetchFails(s) \/ Rename(s) \/ Install(s) \/ Dies(s) \/ OrphanEnds(s)

Spec == Init /\ [][Next]_vars

----
\* Unless two downloads overlap, the package in the cache is complete at all
\* times, whatever failed or died before, and so is every one that is installed.
PackagesWhole == single => msi # "partial" /\ \A s \in Setups : installed[s] # "partial"
=============================================================================
