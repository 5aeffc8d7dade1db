-------------------------- MODULE ToolchainInstall --------------------------
(***************************************************************************)
(* src/scripts: config-<target>.sh, build.sh and install-<target>.sh, one  *)
(* at a time and in any order, for several targets.  They share .config    *)
(* and the directory temp; each target has its tool chain as it was built  *)
(* (CT_PREFIX), the one in the SDK, and an .old copy of that.              *)
(*                                                                         *)
(* A script may be stopped at any of its commands, and any of them may     *)
(* fail; either way a part of what the command does may have been done.    *)
(* There is no set -e: after a failure the script goes on with its next    *)
(* command, and the exit status is that of the last one.                   *)
(***************************************************************************)
EXTENDS Integers

CONSTANTS Targets, MaxBuilds

Builds == 0..MaxBuilds      \* 0 was shipped with the SDK
NoBuild == -1

\* A directory: the builds that it may have files of, and the one that it has
\* all the files of, as they were built.
Trees == [of : SUBSET Builds, whole : Builds \cup {NoBuild}]
Nothing == [of |-> {}, whole |-> NoBuild]
Only(b) == [of |-> {b}, whole |-> b]
PartOf(tree) == [tree EXCEPT !.whole = NoBuild]

\* cp -a into a directory that is there already leaves what is only in that.
Onto(tree, new) ==
    IF new.whole # NoBuild
    THEN {[of |-> tree.of \cup new.of, whole |-> new.whole]}
    ELSE [of : {tree.of \cup new.of}, whole : {tree.whole, NoBuild}]

NoFile == "no file"
Targetless == "no target"   \* .config has nothing of any target's section

ASSUME InstallAssumption == MaxBuilds \in Nat /\ {NoFile, Targetless} \cap Targets = {}

ConfigLines == {"rm temp", "copy includes", "rm .config", "cat", "upgrade"}
InstallLines == {"rm old", "mv", "cp"}

VARIABLES
    script, target, line,   \* the last script, its target, and its next command
    status,                 \* its exit status
    unnoticed,              \* commands of the last config and of the last install
                            \* script that have failed, which nobody asked for
    stopped,                \* the command at which the last config script was stopped
    temp,                   \* the directories in temp/include/inject that are whole
    config,                 \* the target whose section .config has, or a part of it
    builds,                 \* builds begun
    prefix, sdk, old,
    nested                  \* what mv has put into an .old that was still there

scriptState == <<script, target, line, status, unnoticed, stopped>>
configured == <<temp, config>>
dirs == <<prefix, sdk, old, nested>>
scriptVars == <<scriptState, configured, builds, dirs>>

ScriptsInit ==
    /\ script = "none" /\ target \in Targets /\ line = "none" /\ status = "none"
    /\ unnoticed = {} /\ stopped = "none"
    /\ temp = {} /\ config = NoFile
    /\ builds = 0
    /\ prefix = [t \in Targets |-> Nothing]
    /\ sdk = [t \in Targets |-> Only(0)]
    /\ old = [t \in Targets |-> Nothing]
    /\ nested = [t \in Targets |-> Nothing]

Start(name, first, lines) ==
    /\ line = "none"
    /\ script' = name /\ line' = first
    /\ target' \in Targets
    /\ status' = "none"
    /\ unnoticed' = unnoticed \ lines

Then(from, to) ==
    /\ line = from /\ line' = to
    /\ UNCHANGED <<script, target, status, unnoticed, stopped>>

Exit(result) ==
    /\ line' = "none" /\ status' = result
    /\ UNCHANGED <<script, target, unnoticed>>

Stop(from) ==
    /\ line = from /\ Exit("stopped")
    /\ stopped' = IF script = "config" THEN from ELSE stopped

\* The command has not done what it should: it has failed, which nobody asks
\* for, or the script has been stopped at it.
Cut(from, to) ==
    \/ /\ line = from /\ line' = to
       /\ unnoticed' = unnoticed \cup {from}
       /\ UNCHANGED <<script, target, status, stopped>>
    \/ Stop(from)

-----------------------------------------------------------------------------
(* config-<target>.sh                                                       *)

\* check_file; a part of a tool chain may have the file already.
Config ==
    /\ Start("config", "rm temp", ConfigLines)
    /\ sdk[target'] # Nothing
    /\ stopped' = "none"
    /\ UNCHANGED <<configured, builds, dirs>>

RemoveTemp ==
    /\ \/ /\ Then("rm temp", "copy includes")
          /\ temp' = {}
       \/ /\ Cut("rm temp", "copy includes")
          /\ temp' \in SUBSET temp
    /\ UNCHANGED <<config, builds, dirs>>

\* What is common to all targets, in a directory zephyr, and the picolibc.h of
\* this one, in a directory of its target's name.
CopyIncludes ==
    /\ \/ /\ Then("copy includes", "rm .config")
          /\ temp' = temp \cup {"zephyr", target}
       \/ /\ Cut("copy includes", "rm .config")
          /\ \E there \in SUBSET {"zephyr", target} :
                temp' = (temp \ {"zephyr", target}) \cup there
    /\ UNCHANGED <<config, builds, dirs>>

\* The next command overwrites it anyhow.
KeepConfig == Then("rm .config", "cat") /\ UNCHANGED <<configured, builds, dirs>>

RemoveConfig ==
    /\ \/ Then("rm .config", "cat") /\ config' = NoFile
       \/ Cut("rm .config", "cat") /\ UNCHANGED config
    /\ UNCHANGED <<temp, builds, dirs>>

\* Where .config cannot be opened the one that is there stays.
WriteConfig ==
    /\ \/ Then("cat", "upgrade") /\ config' = target
       \/ Cut("cat", "upgrade") /\ config' \in {config, Targetless, target}
    /\ UNCHANGED <<temp, builds, dirs>>

\* ct-ng upgradeconfig, of whatever there is, decides on the exit status.
UpgradeConfig ==
    /\ \/ line = "upgrade" /\ Exit("ok") /\ config # NoFile /\ UNCHANGED stopped
       \/ line = "upgrade" /\ Exit("failed") /\ UNCHANGED stopped
       \/ Stop("upgrade")
    /\ UNCHANGED <<configured, builds, dirs>>

-----------------------------------------------------------------------------
(* build.sh: ct-ng build                                                    *)

\* .config says for what; nobody asks whether its script has come to an end.
Build ==
    /\ Start("build", "build", {})
    /\ config \in Targets /\ target' = config
    /\ builds < MaxBuilds
    /\ builds' = builds + 1
    /\ UNCHANGED <<stopped, configured, dirs>>

\* What was built for the target before is removed first.
BuildEnds ==
    /\ line = "build"
    /\ UNCHANGED stopped
    /\ \/ Exit("ok") /\ prefix' = [prefix EXCEPT ![target] = Only(builds)]
       \/ /\ Exit("failed") \/ Exit("stopped")
          /\ \E tree \in {prefix[target], PartOf(prefix[target]), Nothing, PartOf(Only(builds))} :
                prefix' = [prefix EXCEPT ![target] = tree]
    /\ UNCHANGED <<configured, builds, sdk, old, nested>>

-----------------------------------------------------------------------------
(* install-<target>.sh                                                      *)

\* check_dir asks no more than that there is something.
Install ==
    /\ Start("install", "rm old", InstallLines)
    /\ prefix[target'] # Nothing
    /\ UNCHANGED <<stopped, configured, builds, dirs>>

\* move_to_old: rm -rf, if there is an .old, ...
RemoveOld ==
    /\ \/ /\ Then("rm old", "mv")
          /\ old' = [old EXCEPT ![target] = Nothing]
          /\ nested' = [nested EXCEPT ![target] = Nothing]
       \/ /\ Cut("rm old", "mv")
          /\ old[target] # Nothing
          /\ \E tree \in {old[target], PartOf(old[target])},
                inner \in {nested[target], PartOf(nested[target]), Nothing} :
                /\ old' = [old EXCEPT ![target] = tree]
                /\ nested' = [nested EXCEPT ![target] = inner]
    /\ UNCHANGED <<configured, builds, prefix, sdk>>

\* The present tool chain is removed, not moved.
RemovePresent ==
    /\ Then("mv", "cp")
    /\ sdk' = [sdk EXCEPT ![target] = Nothing]
    /\ UNCHANGED <<configured, builds, prefix, old, nested>>

\* ... and mv, if there is a present tool chain: to .old, or into it if it is
\* still there.  A tool chain has a directory of its target's name, in whose
\* place it does not go.
MoveToOld ==
    /\ \/ /\ Then("mv", "cp")
          /\ sdk' = [sdk EXCEPT ![target] = Nothing]
          /\ \/ /\ old[target] = Nothing
                /\ old' = [old EXCEPT ![target] = sdk[target]]
                /\ UNCHANGED nested
             \/ /\ old[target] # Nothing /\ sdk[target] # Nothing
                /\ old[target].whole = NoBuild /\ nested[target].whole = NoBuild
                /\ nested' = [nested EXCEPT ![target] = sdk[target]]
                /\ UNCHANGED old
             \/ /\ old[target] # Nothing /\ sdk[target] = Nothing
                /\ UNCHANGED <<old, nested>>
       \/ /\ Cut("mv", "cp")
          /\ sdk[target] # Nothing
          /\ UNCHANGED <<sdk, old, nested>>
    /\ UNCHANGED <<configured, builds, prefix>>

Copied == \E tree \in Onto(sdk[target], prefix[target]) : sdk' = [sdk EXCEPT ![target] = tree]
CopiedInPart ==
    \E tree \in {sdk[target]} \cup Onto(sdk[target], PartOf(prefix[target])) :
        sdk' = [sdk EXCEPT ![target] = tree]

\* A last command behind the cp would hide that it has failed.
InstallHidesFailure ==
    /\ line = "cp"
    /\ Exit("ok")
    /\ Copied \/ CopiedInPart
    /\ UNCHANGED <<stopped, configured, builds, prefix, old, nested>>

\* The exit status is that of cp.
InstallEnds ==
    /\ \/ line = "cp" /\ Exit("ok") /\ UNCHANGED stopped /\ Copied
       \/ line = "cp" /\ Exit("failed") /\ UNCHANGED stopped /\ CopiedInPart
       \/ Stop("cp") /\ CopiedInPart
    /\ UNCHANGED <<configured, builds, prefix, old, nested>>

-----------------------------------------------------------------------------
ConfigScript ==
    Config \/ RemoveTemp \/ CopyIncludes \/ RemoveConfig \/ WriteConfig \/ UpgradeConfig
BuildScript == Build \/ BuildEnds
InstallScript == Install \/ RemoveOld \/ MoveToOld \/ InstallEnds

ScriptsNext == ConfigScript \/ BuildScript \/ InstallScript
ScriptsSpec == ScriptsInit /\ [][ScriptsNext]_scriptVars

-----------------------------------------------------------------------------
\* The types.
ScriptsTypeOK ==
    /\ script \in {"none", "config", "build", "install"}
    /\ target \in Targets
    /\ line \in ConfigLines \cup {"build"} \cup InstallLines \cup {"none"}
    /\ status \in {"none", "ok", "failed", "stopped"}
    /\ unnoticed \subseteq ConfigLines \cup InstallLines
    /\ stopped \in ConfigLines \cup {"none"}
    /\ temp \subseteq Targets \cup {"zephyr"}
    /\ config \in Targets \cup {Targetless, NoFile}
    /\ builds \in Builds
    /\ prefix \in [Targets -> Trees]
    /\ sdk \in [Targets -> Trees]
    /\ old \in [Targets -> Trees]
    /\ nested \in [Targets -> Trees]

\* Somewhere in the SDK there is a whole tool chain for t.
Whole(t) == \E dir \in {sdk[t], old[t], nested[t]} : dir.whole # NoBuild

\* However often the scripts are run, stopped and failing wherever, the last
\* whole tool chain of a target is lost at two places only: when an .old copy is
\* removed although what stands in its place is not whole (an installation
\* begun after one that went wrong), and when cp writes over a tool chain that
\* mv has failed to move.  An installation that begins with a whole one in its
\* place and whose mv works may be stopped or fail anywhere else.
KeepsTheLast ==
    [][\A t \in Targets : Whole(t) /\ ~Whole(t)' =>
          /\ target = t
          /\ \/ line = "rm old" /\ sdk[t].whole = NoBuild
             \/ line = "cp" /\ "mv" \in unnoticed]_scriptVars

\* When an installation reports success all that was last built for its target
\* is in place, if that was whole; and nothing else is there with it unless its
\* mv has failed, which its exit status does not tell.
InstalledAsReported ==
    line = "none" /\ script = "install" /\ status = "ok" =>
        /\ prefix[target].whole # NoBuild => sdk[target].whole = prefix[target].whole
        /\ "mv" \notin unnoticed => sdk[target] = prefix[target]

HasIncludes(t) == {"zephyr", t} \subseteq temp

\* A build finds the includes of its target in temp, be the config script stopped
\* or failing, unless that was stopped before it had removed the .config of
\* another target, or could neither remove nor overwrite it; or unless a copy
\* has failed unnoticed.
BuildsWithOwnIncludes ==
    line = "build" =>
        \/ HasIncludes(target)
        \/ stopped \in {"rm temp", "copy includes", "rm .config"}
        \/ "copy includes" \in unnoticed
        \/ "rm .config" \in unnoticed /\ (stopped = "cat" \/ "cat" \in unnoticed)
=============================================================================
