---------------------------------- MODULE Cli ----------------------------------
(***************************************************************************)
(* `lugas routes` and `lugas inspect`: the application file is imported by *)
(* a child process, under a timeout, and what the child wrote is taken for *)
(* the manifest.  The file runs inside the child (Definition), and may     *)
(* print, exit, start a server or hang as it likes; the parent sees an     *)
(* exit code and two pipes.  Run without the command it does the same and  *)
(* is never killed.                                                        *)
(***************************************************************************)
EXTENDS Definition

CONSTANTS
  CommandLines, \* process.argv.slice(2)
  Numbers       \* the arguments of --timeout that are numbers, with their values

Flags == {"--version", "--help", "--timeout"}
Printed == {"nothing", "manifest", "null", "other", "noise"}

ASSUME CommandLinesAssumption == CommandLines \subseteq Seq(STRING)
ASSUME NumbersAssumption == \A n \in DOMAIN Numbers : Numbers[n] \in Nat

VARIABLES
  phase,  \* "parse", "child", "ended" or "exited"
  argv,
  args,   \* parseArgs(): the command and its entry
  child,  \* the child process: exit code, output, killed by the timeout?, and what
          \* its file had done: the application it defined, did it export it?
  dir,    \* the temporary directory exists
  out     \* exit code of the command and what it printed

cvars == <<vars, phase, argv, args, child, dir, out>>

noChild == [code |-> 0, stdout |-> "nothing", timedOut |-> FALSE, exports |-> FALSE, app |-> "none"]

CliInit ==
  /\ Init
  /\ argv \in CommandLines /\ phase = "parse"
  /\ args = [command |-> "help", entry |-> "none"]
  /\ child = noChild /\ dir = FALSE /\ out = [code |-> 0, printed |-> "nothing"]

-----------------------------------------------------------------------------
(* parseArgs() and main().                                                 *)

at(i) == IF i \in DOMAIN argv THEN argv[i] ELSE "none"

\* A token that is there and not empty.
follows(i) == i \in DOMAIN argv /\ argv[i] # ""

Parsed == [command : STRING, entry : STRING]

\* The scan from token i on: the arguments it ends with, or a RangeError.
parseArgs[i \in Nat, a \in Parsed] ==
  IF i > Len(argv) THEN a
  ELSE IF argv[i] \in {"--version", "-v"} THEN [a EXCEPT !.command = "version"]
  ELSE IF argv[i] \in {"--help", "-h"} THEN [a EXCEPT !.command = "help"]
  ELSE IF argv[i] = "--timeout" /\ follows(i + 1)
  THEN IF at(i + 1) \in DOMAIN Numbers /\ Numbers[at(i + 1)] > 0
       THEN parseArgs[i + 2, a]
       ELSE [a EXCEPT !.command = "RangeError"]
  ELSE IF argv[i] \in {"routes", "inspect"}
  THEN IF follows(i + 1) /\ at(i + 1) \notin Flags
       THEN parseArgs[i + 2, [command |-> argv[i], entry |-> at(i + 1)]]
       ELSE parseArgs[i + 1, [a EXCEPT !.command = argv[i]]]
  ELSE parseArgs[i + 1, a]

exit(code, printed) == phase' = "exited" /\ out' = [code |-> code, printed |-> printed]

\* main() up to loadAppManifest(): texts, a missing entry, or the spawn.
Main ==
  /\ phase = "parse"
  /\ args' = parseArgs[1, args] /\ argv' = <<>>
  /\ \/ args'.command \in {"help", "version"} /\ exit(0, "other") /\ UNCHANGED dir
     \/ args'.command = "RangeError" /\ exit(1, "nothing") /\ UNCHANGED dir
     \/ /\ args'.command \in {"routes", "inspect"}
        /\ IF args'.entry = "none"
           THEN exit(3, "other") /\ UNCHANGED dir
           ELSE phase' = "child" /\ dir' = TRUE /\ UNCHANGED out
  /\ UNCHANGED <<vars, child>>

-----------------------------------------------------------------------------
(* The child: CHILD_SCRIPT and the file it imports.                        *)

Run ==
  /\ phase = "child" /\ args.entry = "app.ts"
  /\ Next /\ UNCHANGED <<phase, argv, args, child, dir, out>>

\* The memory of the child goes with it.
ends(code, stdout, timedOut, exports) ==
  /\ phase' = "ended"
  /\ child' = [code |-> code, stdout |-> stdout, timedOut |-> timedOut, exports |-> exports, app |-> app]
  /\ arrays' = [own |-> <<>>, frozen |-> <<>>] /\ edits' = 0
  /\ maps' = [o \in {"root", "module"} |-> [p \in Patterns |-> "none"]]
  /\ services' = [k \in Keys |-> [kind |-> "absent", name |-> "", value |-> "absent"]]
  /\ route' = "none" /\ socket' = "none" /\ module' = "none" /\ vetted' = [paths |-> {}, services |-> {}]
  /\ app' = "none" /\ rows' = [p \in Patterns |-> noRow] /\ facts' = [p \in Patterns |-> <<>>]
  /\ endpoints' = {} /\ slots' = [k \in Keys |-> "none"] /\ starting' = <<>>
  /\ UNCHANGED <<argv, args, dir, out>>

\* import() rejects: no such file, or the file threw, a diagnostic or anything else.
ImportFails == phase = "child" /\ ends(1, "nothing", FALSE, FALSE)

\* The file calls process.exit() itself.
FileExits(code, noise) ==
  /\ phase = "child" /\ args.entry = "app.ts" /\ app \in {"none", "accepted"}
  /\ ends(code, IF noise THEN "noise" ELSE "nothing", FALSE, FALSE)

ExportType == {"none", "app", "value", "nullManifest", "otherManifest"}

\* mod.default ?? mod.app: only a missing default lets a named `app` be seen.
exported(default, named) == IF default = "none" THEN named ELSE default

written(e) == CASE e = "app" -> "manifest" [] e = "nullManifest" -> "null" [] OTHER -> "other"

\* The import resolves and nothing keeps the process alive.
Imported(default, named, noise) ==
  /\ phase = "child" /\ args.entry = "app.ts" /\ app \in {"none", "accepted"}
  /\ "app" \in {default, named} => app = "accepted"
  /\ LET e == exported(default, named)
     IN IF e \in {"none", "value"}
        THEN ends(3, IF noise THEN "noise" ELSE "nothing", FALSE, FALSE)
        ELSE ends(0, IF noise THEN "noise" ELSE written(e), FALSE, e = "app")

\* The timeout kills a child that hangs, or one that has written the manifest
\* and is kept alive by a server or a timer.
TimesOut(stdout) ==
  /\ phase = "child" /\ (stdout = "manifest" => args.entry = "app.ts" /\ app = "accepted")
  /\ ends(143, stdout, TRUE, FALSE)

-----------------------------------------------------------------------------
(* loadAppManifest() after spawnSync(), and the rest of main().            *)

parses(stdout) == stdout \in {"manifest", "other"}

\* Mutant: the timeout is not asked for.
trustsExit ==
  IF child.code = 3 THEN 3 ELSE IF child.stdout = "manifest" THEN 0 ELSE 1

\* JSON.parse(), and the reading of `format`, throw on noise, nothing and null.
loadAppManifest ==
  IF child.timedOut THEN 2
  ELSE IF child.code = 3 THEN 3
  ELSE IF child.code # 0 THEN 1
  ELSE IF ~parses(child.stdout) THEN 1
  ELSE IF child.stdout = "manifest" THEN 0 ELSE 3

Load ==
  /\ phase = "ended"
  /\ dir' = FALSE
  /\ exit(loadAppManifest, IF loadAppManifest = 0 THEN child.stdout ELSE "nothing")
  /\ UNCHANGED <<vars, argv, args, child>>

CliNext ==
  \/ Main \/ Run \/ ImportFails
  \/ \E code \in {0, 3, 5}, noise \in BOOLEAN : FileExits(code, noise)
  \/ \E default, named \in ExportType, noise \in BOOLEAN : Imported(default, named, noise)
  \/ \E stdout \in {"nothing", "manifest", "noise"} : TimesOut(stdout)
  \/ Load

CliSpec == CliInit /\ [][CliNext]_cvars

-----------------------------------------------------------------------------
loads == args.command \in {"routes", "inspect"} /\ args.entry # "none"

\* The command prints a manifest, and exits with 0, exactly when the file
\* defined an application, exported it, was silent and let its process end in
\* time; 2 says that it was killed and nothing else, 3 that there is no
\* application to see; the temporary directory, once its script is written, never
\* outlives the command.  What a file makes by hand in the shape of a manifest is
\* left out (load-app.ts:10-14, :48-98, docs/cli-security.md).
CliTruth ==
  phase = "exited" =>
    /\ ~dir
    /\ loads => /\ (out.code = 0) = (child.exports /\ child.stdout = "manifest")
                /\ out.code = 0 => child.app = "accepted" /\ out.printed = "manifest"
                /\ (out.code = 2) = child.timedOut
                /\ out.code = 3 => ~child.exports
                /\ child.app \notin {"none", "accepted"} => out.code \in {1, 2}

=============================================================================
