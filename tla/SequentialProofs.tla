-------------------------- MODULE SequentialProofs --------------------------
(***************************************************************************)
(* The two components in which nothing runs concurrently.                  *)
(*                                                                         *)
(* FormatString: the sizes of the strings that its two functions return,   *)
(* for every size_t, every INT_MAX and every max_size().                   *)
(*                                                                         *)
(* ToolchainInstall: its safety properties, for any set of targets, any    *)
(* number of builds and of installations, and any commands that fail.      *)
(* What each script has done depends on how far it has got and on which of *)
(* its commands have failed; the inductive invariant says so, line by      *)
(* line.                                                                   *)
(***************************************************************************)
EXTENDS FormatString, ToolchainInstall, TLAPS

-----------------------------------------------------------------------------
(* FormatString                                                             *)

\* What the string has room for where vsnprintf has been called, or is next.
Reserved ==
    /\ pc = "reserve" => size = 0 /\ bsz = Size(limit + 1)
    /\ pc \in {"format", "fit"} => size = limit /\ bsz = limit + 1 /\ bsz <= MaxSize
    /\ pc = "fit" => nchars = Size(formatLen)

\* The second time: the output is too long for the hint, and what is reserved
\* for it is all of it, since an error leads to a size that no string has.
ReservedAgain ==
    /\ pc \in {"reserve_again", "format_again", "fit_again"} => function = "h"
    /\ pc = "reserve_again" =>
          size = limit /\ bsz = Min2(Size(Size(formatLen) + 1), MaxSize + 1)
    /\ pc \in {"format_again", "fit_again"} =>
          formatLen # Error /\ size = formatLen /\ bsz = formatLen + 1
    /\ pc = "fit_again" /\ ~ArgsByReference => nchars \in {Size(formatLen), Size(Error)}

IInv ==
    /\ TypeOK
    /\ pc # "return" => ~failed
    /\ Reserved /\ ReservedAgain
    /\ FailureContained
    /\ ~ArgsByReference => SizeAsPromised

-----------------------------------------------------------------------------
LEMMA Modulo ==
    ASSUME NEW m \in Nat \ {0}
    PROVE  (\A n \in 0..m - 1 : n % m = n) /\ (-1) % m = m - 1
<1>1. ASSUME NEW n \in 0..m - 1 PROVE n % m = n
    OBVIOUS
<1>2. (-1) % m = m - 1
    OBVIOUS
<1> QED BY <1>1, <1>2

\* What is not too large for size_t is kept, and the neighbours of its range
\* wrap around.
LEMMA Wraps ==
    /\ \A n \in Sizes : Size(n) = n
    /\ Size(-1) = SizeMax
    /\ Size(SizeMax + 1) = 0
<1>1. SizeMax + 1 \in Nat \ {0}
    BY FormatAssumption
<1>2. \A n \in Sizes : Size(n) = n
    BY <1>1, Modulo, FormatAssumption DEF Size, Sizes
<1>3. Size(-1) = SizeMax
    BY <1>1, Modulo, FormatAssumption DEF Size
<1>4. Size(SizeMax + 1) = 0
    BY <1>1 DEF Size
<1> QED BY <1>2, <1>3, <1>4

\* The length that vsnprintf reports, or what an error is taken for.
LEMMA Reported ==
    ASSUME NEW n \in 0..IntMax \cup {Error}
    PROVE  /\ n \in 0..IntMax => Size(n) = n /\ Size(n + 1) = n + 1
           /\ n = Error => Size(n) = SizeMax
           /\ Size(n) \in Sizes
<1>1. CASE n \in 0..IntMax
  <2>1. n \in Sizes /\ n + 1 \in Sizes /\ n # Error
      BY <1>1, FormatAssumption DEF Sizes, Error
  <2> QED BY <1>1, <2>1, Wraps
<1>2. CASE n = Error
    BY <1>2, Wraps, FormatAssumption DEF Error, Sizes
<1> QED BY <1>1, <1>2

\* One more, or one less, than a size.
LEMMA Neighbours ==
    ASSUME NEW n \in Sizes
    PROVE  /\ Size(n + 1) = (IF n = SizeMax THEN 0 ELSE n + 1)
           /\ Size(n - 1) = (IF n = 0 THEN SizeMax ELSE n - 1)
<1>1. CASE n = SizeMax
    BY <1>1, Wraps, FormatAssumption DEF Sizes
<1>2. CASE n # SizeMax /\ n # 0
  <2>1. n + 1 \in Sizes /\ n - 1 \in Sizes
      BY <1>2, FormatAssumption DEF Sizes
  <2> QED BY <1>2, <2>1, Wraps
<1>3. CASE n = 0
  <2>1. n + 1 \in Sizes /\ n # SizeMax
      BY <1>3, FormatAssumption DEF Sizes
  <2> QED BY <1>3, <2>1, Wraps
<1> QED BY <1>1, <1>2, <1>3

-----------------------------------------------------------------------------
LEMMA InitIInv == Init => IInv
<1> SUFFICES ASSUME Init PROVE IInv
    OBVIOUS
<1>1. Size(limit + 1) \in Sizes
    BY Neighbours, FormatAssumption DEF Init, Sizes
<1>2. 0 \in Sizes /\ 0 \in 0..MaxSize
    BY FormatAssumption DEF Sizes
<1>3. TypeOK
    BY <1>1, <1>2 DEF Init, TypeOK
<1> QED BY <1>3 DEF Init, IInv, Reserved, ReservedAgain, FailureContained, SizeAsPromised

\* An exception leaves the string as it is.
LEMMA ThrowStep ==
    ASSUME IInv, Throw, pc # "return", size \in {0, limit, formatLen}
    PROVE  IInv'
BY DEF IInv, TypeOK, Reserved, ReservedAgain, FailureContained, SizeAsPromised, Throw, input

LEMMA ReserveStep == ASSUME IInv, Reserve PROVE IInv'
<1>1. CASE pc = "reserve" /\ Throw
    BY <1>1, ThrowStep DEF IInv, Reserved
<1>2. CASE /\ Go("reserve", "format")
           /\ bsz <= MaxSize /\ Size(bsz - 1) <= MaxSize
           /\ size' = Size(bsz - 1)
           /\ UNCHANGED <<bsz, nchars>>
  <2>1. bsz = Size(limit + 1) /\ limit \in Sizes /\ bsz \in Sizes
      BY <1>2 DEF Go, IInv, TypeOK, Reserved
  <2>2. bsz = limit + 1 /\ size' = limit
      BY <1>2, <2>1, Neighbours, FormatAssumption DEF Sizes
  <2>3. TypeOK'
      BY <1>2, <2>1, <2>2, FormatAssumption DEF Go, IInv, TypeOK, Sizes, input
  <2> QED BY <1>2, <2>2, <2>3
          DEF Go, IInv, Reserved, ReservedAgain, FailureContained, SizeAsPromised, input
<1> QED BY <1>1, <1>2 DEF Reserve, Enlarge

LEMMA FormatStep == ASSUME IInv, Format PROVE IInv'
<1>1. Size(formatLen) \in Sizes
    BY Reported DEF IInv, TypeOK
<1>2. TypeOK'
    BY <1>1 DEF Format, Go, IInv, TypeOK, input
<1> QED BY <1>2
        DEF Format, Go, IInv, Reserved, ReservedAgain, FailureContained, SizeAsPromised, input

LEMMA FitStep == ASSUME IInv, Fit PROVE IInv'
<1>1. /\ pc = "fit" /\ pc' = "return" /\ ~failed /\ UNCHANGED <<input, failed, bsz, nchars>>
      /\ TypeOK /\ size = limit /\ bsz = limit + 1 /\ bsz <= MaxSize /\ nchars = Size(formatLen)
    BY DEF Fit, Go, IInv, Reserved
<1>2. CASE nchars < bsz /\ size' = nchars
  <2>1. formatLen # Error
      BY <1>1, <1>2, Reported, FormatAssumption DEF TypeOK
  <2>2. size' = formatLen /\ formatLen <= limit
      BY <1>1, <1>2, <2>1, Reported, FormatAssumption DEF TypeOK, Sizes, Error
  <2>3. TypeOK'
      BY <1>1, <2>1, <2>2, FormatAssumption DEF TypeOK, Sizes, input
  <2>4. SizeAsPromised' /\ FailureContained'
      BY <1>1, <2>1, <2>2, FormatAssumption
      DEF TypeOK, Sizes, SizeAsPromised, FailureContained, Min2, input, Error
  <2> QED BY <1>1, <2>3, <2>4 DEF IInv, Reserved, ReservedAgain
<1>3. CASE nchars >= bsz /\ size' = size /\ function = "n"
  <2>1. formatLen # Error => formatLen > limit
      BY <1>1, <1>3, Reported, FormatAssumption DEF TypeOK, Sizes, Error
  <2>2. TypeOK'
      BY <1>1, <1>3 DEF TypeOK, input
  <2>3. SizeAsPromised' /\ FailureContained'
      BY <1>1, <1>3, <2>1, FormatAssumption
      DEF TypeOK, Sizes, SizeAsPromised, FailureContained, Min2, input, Error
  <2> QED BY <1>1, <2>2, <2>3 DEF IInv, Reserved, ReservedAgain
<1> QED BY <1>2, <1>3 DEF Fit

LEMMA GrowStep == ASSUME IInv, Grow PROVE IInv'
<1>1. nchars = Size(formatLen) /\ size = limit /\ nchars \in Sizes
    BY DEF Grow, Go, IInv, TypeOK, Reserved
<1>2. bsz' = Min2(Size(Size(formatLen) + 1), MaxSize + 1)
    BY <1>1 DEF Grow
<1>3. bsz' \in Sizes
  <2>1. Size(nchars + 1) \in Sizes
      BY <1>1, Neighbours, FormatAssumption DEF Sizes
  <2> QED BY <1>1, <1>2, <2>1, FormatAssumption DEF Min2, Sizes
<1>4. TypeOK'
    BY <1>3 DEF Grow, Go, IInv, TypeOK, input
<1> QED BY <1>1, <1>2, <1>4
        DEF Grow, Go, IInv, Reserved, ReservedAgain, FailureContained, SizeAsPromised, input

LEMMA ReserveAgainStep == ASSUME IInv, ReserveAgain PROVE IInv'
<1>1. CASE pc = "reserve_again" /\ Throw
    BY <1>1, ThrowStep DEF IInv, ReservedAgain
<1>2. CASE /\ Go("reserve_again", "format_again")
           /\ bsz <= MaxSize /\ Size(bsz - 1) <= MaxSize
           /\ size' = Size(bsz - 1)
           /\ UNCHANGED <<bsz, nchars>>
  <2>1. /\ TypeOK /\ function = "h"
        /\ bsz = Min2(Size(Size(formatLen) + 1), MaxSize + 1)
      BY <1>2 DEF Go, IInv, ReservedAgain
  <2>2. formatLen # Error
    <3>1. SUFFICES ASSUME formatLen = Error PROVE FALSE
        OBVIOUS
    <3>2. Size(Size(formatLen) + 1) = 0
        BY <2>1, <3>1, Reported, Wraps DEF TypeOK
    <3>3. bsz = 0
        BY <2>1, <3>2, FormatAssumption DEF Min2
    <3> QED BY <1>2, <3>3, Wraps, FormatAssumption
  <2>3. formatLen \in 0..IntMax /\ Size(Size(formatLen) + 1) = formatLen + 1
      BY <2>1, <2>2, Reported DEF TypeOK
  <2>4. bsz = formatLen + 1
      BY <1>2, <2>1, <2>3, FormatAssumption DEF Min2
  <2>5. size' = formatLen
      BY <1>2, <2>1, <2>3, <2>4, Neighbours, FormatAssumption DEF TypeOK
  <2>6. TypeOK'
      BY <1>2, <2>1, <2>3, <2>4, <2>5, FormatAssumption DEF Go, TypeOK, input
  <2> QED BY <1>2, <2>1, <2>2, <2>4, <2>5, <2>6
          DEF Go, IInv, Reserved, ReservedAgain, FailureContained, SizeAsPromised, input
<1> QED BY <1>1, <1>2 DEF ReserveAgain, Enlarge

LEMMA FormatAgainStep == ASSUME IInv, FormatAgain PROVE IInv'
<1>1. TypeOK /\ formatLen # Error /\ function = "h" /\ ~failed
    BY DEF FormatAgain, Go, IInv, ReservedAgain
<1>2. nchars' \in Sizes
  <2>1. \E n \in 0..IntMax \cup {Error} : nchars' = Size(n)
      BY <1>1 DEF FormatAgain, TypeOK
  <2> QED BY <2>1, Reported
<1>3. TypeOK'
    BY <1>1, <1>2 DEF FormatAgain, Go, TypeOK, input
<1>4. ~ArgsByReference => nchars' \in {Size(formatLen), Size(Error)}
    BY DEF FormatAgain
<1> QED BY <1>1, <1>3, <1>4
        DEF FormatAgain, Go, IInv, Reserved, ReservedAgain, FailureContained, SizeAsPromised,
            input

LEMMA FitAgainStep == ASSUME IInv, FitAgain PROVE IInv'
<1>1. /\ TypeOK /\ pc = "fit_again" /\ formatLen # Error /\ function = "h" /\ ~failed
      /\ size = formatLen
    BY DEF FitAgain, Go, IInv, ReservedAgain
<1>2. CASE pc = "fit_again" /\ nchars > size /\ Throw
    BY <1>1, <1>2, ThrowStep
<1>3. CASE /\ Go("fit_again", "return")
           /\ nchars <= MaxSize
           /\ size' = nchars
           /\ UNCHANGED <<bsz, nchars>>
  <2>1. TypeOK'
      BY <1>1, <1>3, FormatAssumption DEF Go, TypeOK, Sizes, input
  <2>2. ~ArgsByReference => nchars = formatLen
    <3>1. SUFFICES ASSUME ~ArgsByReference PROVE nchars = formatLen
        OBVIOUS
    <3>2. nchars \in {Size(formatLen), Size(Error)}
        BY <1>1, <3>1 DEF IInv, ReservedAgain
    <3>3. Size(formatLen) = formatLen /\ Size(Error) = SizeMax
        BY <1>1, Reported DEF TypeOK
    <3> QED BY <1>3, <3>2, <3>3, FormatAssumption
  <2>3. FailureContained'
      BY <1>1, <1>3 DEF Go, FailureContained, input
  <2>4. ~ArgsByReference => SizeAsPromised'
      BY <1>1, <1>3, <2>2 DEF Go, SizeAsPromised, input
  <2> QED BY <1>1, <1>3, <2>1, <2>3, <2>4 DEF Go, IInv, Reserved, ReservedAgain
<1> QED BY <1>2, <1>3 DEF FitAgain

LEMMA NextIInv == IInv /\ [Next]_vars => IInv'
<1> SUFFICES ASSUME IInv, [Next]_vars PROVE IInv'
    OBVIOUS
<1>1. CASE Next
    BY <1>1, ReserveStep, FormatStep, FitStep, GrowStep, ReserveAgainStep, FormatAgainStep,
       FitAgainStep
    DEF Next
<1>2. CASE UNCHANGED vars
    BY <1>2
    DEF vars, input, IInv, TypeOK, Reserved, ReservedAgain, FailureContained, SizeAsPromised
<1> QED BY <1>1, <1>2

\* The size that is reserved follows from the limit, then from the length of
\* the output (miscutils.cpp:38 and :64), however long both are.
THEOREM AlwaysIInv == Spec => []IInv
<1> QED BY InitIInv, NextIInv, PTL DEF Spec

\* vsnprintf is given no more room than there is, and what an error leaves is
\* one of the three sizes, on every target.
THEOREM RoomSuffices == Spec => []Inv
<1>1. IInv => Inv
  <2> SUFFICES ASSUME IInv PROVE WritesWithin
      BY DEF IInv, Inv
  <2> QED BY FormatAssumption DEF IInv, TypeOK, Reserved, ReservedAgain, WritesWithin, Sizes
<1> QED BY <1>1, AlwaysIInv, PTL

\* The string gets the size that its documentation promises
\* (miscutils.hpp, format_string_n and format_string_h), where a va_list can
\* be used twice.
THEOREM SizesAsPromised == ASSUME ~ArgsByReference PROVE Spec => []SizeAsPromised
<1>1. IInv => SizeAsPromised
    BY DEF IInv
<1> QED BY <1>1, AlwaysIInv, PTL

-----------------------------------------------------------------------------
(* ToolchainInstall                                                         *)

ScriptOfLine ==
    /\ line \in ConfigLines => script = "config" /\ stopped = "none"
    /\ line = "build" => script = "build" /\ target = config /\ config \in Targets
    /\ line \in InstallLines => script = "install"

\* What is in the way of the copy is what mv has failed to move.
MovedFirst == line = "cp" => sdk[target] = Nothing \/ "mv" \in unnoticed

\* Why a build for t may be without its includes.
Excused(t) ==
    \/ HasIncludes(t)
    \/ stopped \in {"rm temp", "copy includes", "rm .config"}
    \/ "copy includes" \in unnoticed
    \/ "rm .config" \in unnoticed /\ (stopped = "cat" \/ "cat" \in unnoticed)

\* The includes are there before .config is the target's, and what .config was
\* before is gone before the script can come to its end.
IncludesFollow ==
    /\ line \in {"rm .config", "cat", "upgrade"} =>
          HasIncludes(target) \/ "copy includes" \in unnoticed
    /\ line = "cat" => config = NoFile \/ "rm .config" \in unnoticed
    /\ line = "upgrade" =>
          \/ config \in {NoFile, Targetless, target}
          \/ "rm .config" \in unnoticed /\ "cat" \in unnoticed
    /\ line \notin ConfigLines /\ config \in Targets => Excused(config)

ScriptInv == ScriptsTypeOK /\ ScriptOfLine /\ MovedFirst /\ InstalledAsReported /\ IncludesFollow

\* What a directory may be.
LEMMA TreesAreTrees ==
    /\ Nothing \in Trees
    /\ \A b \in Builds : Only(b) \in Trees
    /\ \A tree \in Trees : PartOf(tree) \in Trees
    /\ \A tree, new \in Trees : Onto(tree, new) \subseteq Trees
    BY DEF Nothing, Only, PartOf, Onto, Trees

\* A copy into an empty place is what is copied; a copy of something whole is
\* whole wherever it is put.
LEMMA CopiedTree ==
    ASSUME NEW tree \in Trees, NEW new \in Trees, NEW copy \in Onto(tree, new)
    PROVE  /\ tree = Nothing => copy = new
           /\ new.whole # NoBuild => copy.whole = new.whole
<1>1. CASE new.whole # NoBuild
    BY <1>1 DEF Onto, Trees, Nothing
<1>2. CASE new.whole = NoBuild
  <2>1. copy.of = tree.of \cup new.of /\ copy.whole \in {tree.whole, NoBuild}
        /\ copy = [of |-> copy.of, whole |-> copy.whole]
      BY <1>2 DEF Onto
  <2>2. new = [of |-> new.of, whole |-> new.whole]
      BY DEF Trees
  <2> QED BY <1>2, <2>1, <2>2 DEF Nothing
<1> QED BY <1>1, <1>2

LEMMA InitScriptInv == ScriptsInit => ScriptInv
<1> SUFFICES ASSUME ScriptsInit PROVE ScriptInv
    OBVIOUS
<1>1. 0 \in Builds
    BY InstallAssumption DEF Builds
<1>2. ScriptsTypeOK
    BY <1>1, TreesAreTrees DEF ScriptsInit, ScriptsTypeOK
<1> QED
    BY <1>2, InstallAssumption DEF ScriptsInit, ScriptInv, ScriptOfLine, MovedFirst,
        InstalledAsReported, IncludesFollow, ConfigLines, InstallLines

\* A command of the config script, or the check at its beginning, leaves the
\* directories alone, and the types hold if it keeps those of temp and .config.
LEMMA ConfigTypes ==
    ASSUME ScriptInv, ConfigScript,
           temp' \subseteq Targets \cup {"zephyr"},
           config' \in Targets \cup {Targetless, NoFile}
    PROVE  ScriptsTypeOK' /\ MovedFirst' /\ InstalledAsReported'
<1>1. ScriptsTypeOK /\ ScriptOfLine
    BY DEF ScriptInv
<1>2. UNCHANGED <<builds, dirs>> /\ script' = "config"
    BY <1>1 DEF ConfigScript, Config, RemoveTemp, CopyIncludes, RemoveConfig, WriteConfig,
        UpgradeConfig, Start, Then, Cut, Stop, Exit, ScriptOfLine, ConfigLines
<1>3. target' \in Targets /\ status' \in {"none", "ok", "failed", "stopped"}
    BY <1>1 DEF ConfigScript, Config, RemoveTemp, CopyIncludes, RemoveConfig, WriteConfig,
        UpgradeConfig, Start, Then, Cut, Stop, Exit, ScriptsTypeOK
<1>4. line' \in ConfigLines \cup {"none"}
    BY DEF ConfigScript, Config, RemoveTemp, CopyIncludes, RemoveConfig, WriteConfig,
        UpgradeConfig, Start, Then, Cut, Stop, Exit, ConfigLines
<1>5. unnoticed' \subseteq ConfigLines \cup InstallLines /\ stopped' \in ConfigLines \cup {"none"}
    BY <1>1 DEF ConfigScript, Config, RemoveTemp, CopyIncludes, RemoveConfig, WriteConfig,
        UpgradeConfig, Start, Then, Cut, Stop, Exit, ScriptsTypeOK, ConfigLines
<1>6. ScriptsTypeOK'
    BY <1>1, <1>2, <1>3, <1>4, <1>5 DEF ScriptsTypeOK, dirs
<1> QED BY <1>2, <1>4, <1>6 DEF MovedFirst, InstalledAsReported, ConfigLines

\* A build or an installation leaves temp and .config alone, and what has
\* become of the last config script.
LEMMA OthersKeepIncludes ==
    ASSUME ScriptInv, BuildScript \/ InstallScript
    PROVE  /\ IncludesFollow'
           /\ temp' \subseteq Targets \cup {"zephyr"}
           /\ config' \in Targets \cup {Targetless, NoFile}
           /\ stopped' \in ConfigLines \cup {"none"}
<1>1. ScriptsTypeOK /\ ScriptOfLine /\ IncludesFollow
    BY DEF ScriptInv
<1>2. UNCHANGED <<temp, config>>
    BY DEF BuildScript, InstallScript, Build, BuildEnds, Install, RemoveOld, MoveToOld,
        InstallEnds, configured
<1>3. UNCHANGED stopped
    BY <1>1 DEF BuildScript, InstallScript, Build, BuildEnds, Install, RemoveOld, MoveToOld,
        InstallEnds, Start, Then, Cut, Stop, Exit, ScriptOfLine, InstallLines
<1>4. line \notin ConfigLines /\ line' \notin ConfigLines
    BY DEF BuildScript, InstallScript, Build, BuildEnds, Install, RemoveOld, MoveToOld,
        InstallEnds, Start, Then, Cut, Stop, Exit, ConfigLines
<1>5. unnoticed' \cap ConfigLines = unnoticed \cap ConfigLines
    BY DEF BuildScript, InstallScript, Build, BuildEnds, Install, RemoveOld, MoveToOld,
        InstallEnds, Start, Then, Cut, Stop, Exit, ConfigLines, InstallLines
<1>6. config \in Targets => Excused(config)
    BY <1>1, <1>4 DEF IncludesFollow
<1>7. config' \in Targets => Excused(config)'
    BY <1>2, <1>3, <1>5, <1>6 DEF Excused, HasIncludes, ConfigLines
<1> QED BY <1>1, <1>2, <1>3, <1>4, <1>7 DEF IncludesFollow, ScriptsTypeOK, ConfigLines

\* Every step of every script preserves the invariant.
LEMMA NextScriptInv == ScriptInv /\ [ScriptsNext]_scriptVars => ScriptInv'
<1> SUFFICES ASSUME ScriptInv, [ScriptsNext]_scriptVars PROVE ScriptInv'
    OBVIOUS
<1>1. ScriptsTypeOK /\ ScriptOfLine /\ MovedFirst /\ InstalledAsReported /\ IncludesFollow
    BY DEF ScriptInv
<1>2. ASSUME ConfigScript,
             temp' \subseteq Targets \cup {"zephyr"},
             config' \in Targets \cup {Targetless, NoFile},
             IncludesFollow'
      PROVE  ScriptInv'
  <2>1. ScriptOfLine'
      BY <1>1, <1>2 DEF ConfigScript, Config, RemoveTemp, CopyIncludes, RemoveConfig, WriteConfig,
          UpgradeConfig, Start, Then, Cut, Stop, Exit, ScriptOfLine, ConfigLines, InstallLines
  <2> QED BY <1>2, <2>1, ConfigTypes DEF ScriptInv
<1>3. ASSUME BuildScript \/ InstallScript,
             target' \in Targets, line' \in {"build", "none"} \cup InstallLines,
             unnoticed' \subseteq ConfigLines \cup InstallLines,
             builds' \in Builds,
             \A d \in {prefix', sdk', old', nested'} : d \in [Targets -> Trees],
             ScriptOfLine', MovedFirst', InstalledAsReported'
      PROVE  ScriptInv'
  <2>1. script' \in {"none", "config", "build", "install"}
        /\ status' \in {"none", "ok", "failed", "stopped"}
      BY <1>1, <1>3 DEF BuildScript, InstallScript, Build, BuildEnds, Install, RemoveOld,
          MoveToOld, InstallEnds, Start, Then, Cut, Stop, Exit, ScriptsTypeOK
  <2>2. ScriptsTypeOK'
      BY <1>3, <2>1, OthersKeepIncludes DEF ScriptsTypeOK
  <2> QED BY <1>3, <2>2, OthersKeepIncludes DEF ScriptInv
<1>4. CASE Config
  <2>1. UNCHANGED <<temp, config>> /\ line' = "rm temp"
      BY <1>4 DEF Config, Start, configured
  <2> QED BY <1>1, <1>2, <1>4, <2>1 DEF ConfigScript, ScriptsTypeOK, IncludesFollow, ConfigLines
<1>5. CASE RemoveTemp
  <2>1. temp' \subseteq Targets \cup {"zephyr"} /\ config' = config
      BY <1>1, <1>5 DEF RemoveTemp, ScriptsTypeOK
  <2>2. line' = "copy includes" \/ (line' = "none" /\ stopped' = "rm temp")
    <3>1. line = "rm temp"
        BY <1>5 DEF RemoveTemp, Then, Cut, Stop
    <3>2. script = "config"
        BY <1>1, <3>1 DEF ScriptOfLine, ConfigLines
    <3>3. line' = "copy includes" \/ Stop("rm temp")
        BY <1>5 DEF RemoveTemp, Then, Cut
    <3> QED BY <3>2, <3>3 DEF Stop, Exit
  <2>3. IncludesFollow'
      BY <2>2 DEF IncludesFollow, Excused, ConfigLines
  <2> QED BY <1>1, <1>2, <1>5, <2>1, <2>3 DEF ConfigScript, ScriptsTypeOK
<1>6. CASE CopyIncludes
  <2>1. temp' \subseteq Targets \cup {"zephyr"} /\ config' = config
      BY <1>1, <1>6 DEF CopyIncludes, ScriptsTypeOK
  <2>2. CASE line' = "none"
    <3>1. stopped' = "copy includes"
        BY <1>1, <1>6, <2>2 DEF CopyIncludes, Then, Cut, Stop, Exit, ScriptOfLine, ConfigLines
    <3> QED BY <1>1, <1>2, <1>6, <2>1, <2>2, <3>1
            DEF ConfigScript, ScriptsTypeOK, IncludesFollow, Excused
  <2>3. CASE line' # "none"
    <3>1. line' = "rm .config" /\ target' = target
        BY <1>6, <2>3 DEF CopyIncludes, Then, Cut, Stop, Exit
    <3>2. HasIncludes(target)' \/ "copy includes" \in unnoticed'
      <4>1. \/ temp' = temp \cup {"zephyr", target}
            \/ unnoticed' = unnoticed \cup {"copy includes"}
          BY <1>6, <2>3 DEF CopyIncludes, Cut, Stop, Exit
      <4> QED BY <3>1, <4>1 DEF HasIncludes
    <3> QED BY <1>1, <1>2, <1>6, <2>1, <3>1, <3>2
            DEF ConfigScript, ScriptsTypeOK, IncludesFollow, ConfigLines
  <2> QED BY <2>2, <2>3
<1>7. CASE RemoveConfig
  <2>1. temp' = temp /\ config' \in {config, NoFile} /\ line = "rm .config"
      BY <1>7 DEF RemoveConfig, Then, Cut, Stop
  <2>2. CASE line' = "none"
    <3>1. stopped' = "rm .config"
        BY <1>1, <1>7, <2>2 DEF RemoveConfig, Then, Cut, Stop, Exit, ScriptOfLine, ConfigLines
    <3> QED BY <1>1, <1>2, <1>7, <2>1, <2>2, <3>1
            DEF ConfigScript, ScriptsTypeOK, IncludesFollow, Excused
  <2>3. CASE line' # "none"
    <3>1. line' = "cat" /\ target' = target /\ unnoticed \subseteq unnoticed'
        BY <1>7, <2>3 DEF RemoveConfig, Then, Cut, Stop, Exit
    <3>2. config' = NoFile \/ "rm .config" \in unnoticed'
        BY <1>7, <2>3 DEF RemoveConfig, Then, Cut, Stop, Exit
    <3>3. HasIncludes(target)' \/ "copy includes" \in unnoticed'
        BY <1>1, <2>1, <3>1 DEF IncludesFollow, HasIncludes
    <3> QED BY <1>1, <1>2, <1>7, <2>1, <3>1, <3>2, <3>3
            DEF ConfigScript, ScriptsTypeOK, IncludesFollow, ConfigLines
  <2> QED BY <2>2, <2>3
<1>8. CASE WriteConfig
  <2>1. temp' = temp /\ config' \in {config, Targetless, target} /\ line = "cat"
        /\ target' = target /\ unnoticed \subseteq unnoticed'
      BY <1>8 DEF WriteConfig, Then, Cut, Stop, Exit
  <2>2. HasIncludes(target)' \/ "copy includes" \in unnoticed'
      BY <1>1, <2>1 DEF IncludesFollow, HasIncludes
  <2>3. config' \in {NoFile, Targetless, target} \/ "rm .config" \in unnoticed'
      BY <1>1, <2>1 DEF IncludesFollow
  <2>4. CASE line' = "none"
    <3>1. stopped' = "cat"
        BY <1>1, <1>8, <2>4 DEF WriteConfig, Then, Cut, Stop, Exit, ScriptOfLine, ConfigLines
    <3>2. config' \in Targets => Excused(config)'
      <4> SUFFICES ASSUME config' \in Targets PROVE Excused(config)'
          OBVIOUS
      <4>1. config' = target' \/ "rm .config" \in unnoticed'
          BY <2>1, <2>3, InstallAssumption
      <4>2. CASE config' = target'
          BY <2>2, <2>1, <4>2 DEF Excused, HasIncludes
      <4>3. CASE "rm .config" \in unnoticed'
          BY <3>1, <4>3 DEF Excused
      <4> QED BY <4>1, <4>2, <4>3
    <3> QED BY <1>1, <1>2, <1>8, <2>1, <2>4, <3>2 DEF ConfigScript, ScriptsTypeOK, IncludesFollow
  <2>5. CASE line' # "none"
    <3>1. line' = "upgrade"
        BY <1>8, <2>5 DEF WriteConfig, Then, Cut, Stop, Exit
    <3>2. config' = target \/ "cat" \in unnoticed'
        BY <1>8, <2>5 DEF WriteConfig, Then, Cut, Stop, Exit
    <3> QED BY <1>1, <1>2, <1>8, <2>1, <2>2, <2>3, <3>1, <3>2
            DEF ConfigScript, ScriptsTypeOK, IncludesFollow, ConfigLines
  <2> QED BY <2>4, <2>5
<1>9. CASE UpgradeConfig
  <2>1. UNCHANGED <<temp, config, target, unnoticed>> /\ line = "upgrade" /\ line' = "none"
      BY <1>9 DEF UpgradeConfig, Stop, Exit, configured
  <2>2. config \in Targets => Excused(config)'
    <3> SUFFICES ASSUME config \in Targets PROVE Excused(config)'
        OBVIOUS
    <3>1. config = target \/ {"rm .config", "cat"} \subseteq unnoticed
      <4>1. config # NoFile /\ config # Targetless
          BY InstallAssumption
      <4>2. \/ config \in {NoFile, Targetless, target}
            \/ "rm .config" \in unnoticed /\ "cat" \in unnoticed
          BY <1>1, <2>1 DEF IncludesFollow
      <4> QED BY <4>1, <4>2
    <3>2. HasIncludes(target) \/ "copy includes" \in unnoticed
        BY <1>1, <2>1 DEF IncludesFollow
    <3> QED BY <2>1, <3>1, <3>2 DEF Excused, HasIncludes
  <2> QED BY <1>1, <1>2, <1>9, <2>1, <2>2 DEF ConfigScript, ScriptsTypeOK, IncludesFollow
<1>10. CASE Build
  <2>1. builds' \in Builds
    <3>1. builds \in Builds /\ builds < MaxBuilds /\ builds' = builds + 1
        BY <1>1, <1>10 DEF Build, ScriptsTypeOK
    <3> QED BY ONLY <3>1, InstallAssumption DEF Builds
  <2>2. UNCHANGED <<prefix, sdk, old, nested, config>>
      BY <1>10 DEF Build, dirs, configured
  <2>3. script' = "build" /\ line' = "build" /\ target' = config /\ config \in Targets
        /\ unnoticed' = unnoticed
      BY <1>10 DEF Build, Start
  <2>4. ScriptOfLine' /\ MovedFirst' /\ InstalledAsReported'
      BY <2>2, <2>3 DEF ScriptOfLine, MovedFirst, InstalledAsReported, ConfigLines, InstallLines
  <2> QED BY <1>1, <1>3, <1>10, <2>1, <2>2, <2>3, <2>4 DEF BuildScript, ScriptsTypeOK
<1>11. CASE BuildEnds
  <2>1. UNCHANGED <<sdk, old, nested, builds, script, target, unnoticed>> /\ line = "build"
        /\ line' = "none"
      BY <1>11 DEF BuildEnds, Exit
  <2>2. prefix' \in [Targets -> Trees]
    <3>1. prefix \in [Targets -> Trees] /\ target \in Targets /\ builds \in Builds
        BY <1>1 DEF ScriptsTypeOK
    <3>2. Only(builds) \in Trees /\ PartOf(Only(builds)) \in Trees /\ Nothing \in Trees
          /\ prefix[target] \in Trees /\ PartOf(prefix[target]) \in Trees
        BY <3>1, TreesAreTrees
    <3>3. PICK tree \in {prefix[target], PartOf(prefix[target]), Nothing, Only(builds),
                         PartOf(Only(builds))} : prefix' = [prefix EXCEPT ![target] = tree]
        BY <1>11 DEF BuildEnds
    <3> QED BY <3>1, <3>2, <3>3
  <2>3. ScriptOfLine' /\ MovedFirst' /\ InstalledAsReported'
      BY <1>1, <2>1 DEF ScriptOfLine, MovedFirst, InstalledAsReported, ConfigLines, InstallLines
  <2> QED BY <1>1, <1>3, <1>11, <2>1, <2>2, <2>3 DEF BuildScript, ScriptsTypeOK
<1>12. CASE Install
  <2>1. UNCHANGED <<prefix, sdk, old, nested, builds>>
      BY <1>12 DEF Install, dirs
  <2>2. script' = "install" /\ line' = "rm old" /\ target' \in Targets
        /\ unnoticed' \subseteq unnoticed
      BY <1>12 DEF Install, Start
  <2>3. ScriptOfLine' /\ MovedFirst' /\ InstalledAsReported'
      BY <2>2 DEF ScriptOfLine, MovedFirst, InstalledAsReported, ConfigLines, InstallLines
  <2> QED BY <1>1, <1>3, <1>12, <2>1, <2>2, <2>3 DEF InstallScript, ScriptsTypeOK, InstallLines
<1>13. CASE RemoveOld
  <2>1. UNCHANGED <<prefix, sdk, builds, target, script>> /\ line = "rm old"
        /\ line' \in {"mv", "none"} /\ unnoticed' \subseteq unnoticed \cup {"rm old"}
        /\ (line' = "none" => status' = "stopped")
      BY <1>13 DEF RemoveOld, Then, Cut, Stop, Exit
  <2>2. old' \in [Targets -> Trees] /\ nested' \in [Targets -> Trees]
    <3>1. old \in [Targets -> Trees] /\ nested \in [Targets -> Trees] /\ target \in Targets
        BY <1>1 DEF ScriptsTypeOK
    <3>2. PartOf(old[target]) \in Trees /\ PartOf(nested[target]) \in Trees /\ Nothing \in Trees
        BY <3>1, TreesAreTrees
    <3>3. PICK tree \in {old[target], PartOf(old[target]), Nothing},
               inner \in {nested[target], PartOf(nested[target]), Nothing} :
               /\ old' = [old EXCEPT ![target] = tree]
               /\ nested' = [nested EXCEPT ![target] = inner]
        BY <1>13 DEF RemoveOld
    <3> QED BY <3>1, <3>2, <3>3
  <2>3. ScriptOfLine' /\ MovedFirst' /\ InstalledAsReported'
      BY <1>1, <2>1 DEF ScriptOfLine, MovedFirst, InstalledAsReported, ConfigLines, InstallLines
  <2> QED BY <1>1, <1>3, <1>13, <2>1, <2>2, <2>3 DEF InstallScript, ScriptsTypeOK, InstallLines
<1>14. CASE MoveToOld
  <2>1. UNCHANGED <<prefix, builds, target, script>> /\ line = "mv" /\ line' \in {"cp", "none"}
        /\ unnoticed' \subseteq unnoticed \cup {"mv"} /\ (line' = "none" => status' = "stopped")
      BY <1>14 DEF MoveToOld, Then, Cut, Stop, Exit
  <2>2. target \in Targets /\ Nothing \in Trees /\ sdk[target] \in Trees
        /\ \A d \in {sdk, old, nested} : d \in [Targets -> Trees]
      BY <1>1, TreesAreTrees DEF ScriptsTypeOK
  <2>3. \A d \in {sdk', old', nested'} : d \in [Targets -> Trees]
      BY <1>14, <2>2 DEF MoveToOld
  <2>4. MovedFirst'
    <3>1. line' = "cp" => sdk' = [sdk EXCEPT ![target] = Nothing] \/ "mv" \in unnoticed'
        BY <1>14, <2>1 DEF MoveToOld, Cut, Stop, Exit
    <3> QED BY <2>1, <2>2, <3>1 DEF MovedFirst
  <2>5. ScriptOfLine' /\ InstalledAsReported'
      BY <1>1, <2>1 DEF ScriptOfLine, InstalledAsReported, ConfigLines, InstallLines
  <2> QED BY <1>1, <1>3, <1>14, <2>1, <2>3, <2>4, <2>5 DEF InstallScript, ScriptsTypeOK, InstallLines
<1>15. CASE InstallEnds
  <2>1. UNCHANGED <<prefix, old, nested, builds, target, script, unnoticed>> /\ line = "cp"
        /\ line' = "none"
      BY <1>15 DEF InstallEnds, Stop, Exit
  <2>2. target \in Targets /\ sdk \in [Targets -> Trees] /\ old \in [Targets -> Trees]
        /\ sdk[target] \in Trees /\ prefix[target] \in Trees /\ nested \in [Targets -> Trees]
        /\ prefix \in [Targets -> Trees]
      BY <1>1 DEF ScriptsTypeOK
  <2>3. PICK tree \in Trees :
            /\ sdk' = [sdk EXCEPT ![target] = tree]
            /\ status' = "ok" => tree \in Onto(sdk[target], prefix[target])
    <3>1. Onto(sdk[target], prefix[target]) \subseteq Trees
          /\ {sdk[target]} \cup Onto(sdk[target], PartOf(prefix[target])) \subseteq Trees
        BY <2>2, TreesAreTrees
    <3>2. CASE Copied
        BY <3>1, <3>2 DEF Copied
    <3>3. CASE CopiedInPart /\ status' # "ok"
        BY <3>1, <3>3 DEF CopiedInPart
    <3> QED BY <1>15, <3>2, <3>3 DEF InstallEnds, Stop, Exit
  <2>4. sdk'[target] = tree /\ sdk' \in [Targets -> Trees]
      BY <2>2, <2>3
  <2>5. InstalledAsReported'
    <3> SUFFICES ASSUME status' = "ok"
                 PROVE  /\ prefix[target].whole # NoBuild => tree.whole = prefix[target].whole
                        /\ "mv" \notin unnoticed => tree = prefix[target]
        BY <2>1, <2>4 DEF InstalledAsReported
    <3>1. tree \in Onto(sdk[target], prefix[target])
        BY <2>3
    <3>2. "mv" \notin unnoticed => sdk[target] = Nothing
        BY <1>1, <2>1 DEF MovedFirst
    <3> QED BY <2>2, <3>1, <3>2, CopiedTree
  <2>6. ScriptOfLine' /\ MovedFirst'
      BY <1>1, <2>1 DEF ScriptOfLine, MovedFirst, ConfigLines, InstallLines
  <2> QED BY <1>1, <1>3, <1>15, <2>1, <2>2, <2>4, <2>5, <2>6 DEF InstallScript, ScriptsTypeOK
<1>16. CASE UNCHANGED scriptVars
  <2>1. UNCHANGED <<script, target, line, status, unnoticed, stopped, temp, config, builds,
                    prefix, sdk, old, nested>>
      BY <1>16 DEF scriptVars, scriptState, configured, dirs
  <2>2. ScriptsTypeOK'
      BY <1>1, <2>1 DEF ScriptsTypeOK
  <2>3. ScriptOfLine' /\ MovedFirst' /\ InstalledAsReported'
      BY <1>1, <2>1 DEF ScriptOfLine, MovedFirst, InstalledAsReported
  <2>4. IncludesFollow'
      BY <1>1, <2>1 DEF IncludesFollow, Excused, HasIncludes
  <2> QED BY <2>2, <2>3, <2>4 DEF ScriptInv
<1> QED
    BY <1>4, <1>5, <1>6, <1>7, <1>8, <1>9, <1>10, <1>11, <1>12, <1>13, <1>14, <1>15, <1>16
    DEF ScriptsNext, ConfigScript, BuildScript, InstallScript

LEMMA AlwaysScriptInv == ScriptsSpec => []ScriptInv
    BY InitScriptInv, NextScriptInv, PTL DEF ScriptsSpec

\* Whatever fails and wherever scripts are stopped, the last whole tool chain of
\* a target goes only with an .old copy whose successor is not whole, or under
\* a cp whose mv has failed; for any targets and any number of installations.
THEOREM KeepsTheLastHolds == ScriptsSpec => KeepsTheLast
<1> DEFINE Lost(t) == Whole(t) /\ ~Whole(t)'
           Known(t) == /\ target = t
                       /\ \/ line = "rm old" /\ sdk[t].whole = NoBuild
                          \/ line = "cp" /\ "mv" \in unnoticed
<1>1. ASSUME ScriptInv, ScriptsNext, NEW t \in Targets, Lost(t) PROVE Known(t)
  <2>1. ScriptsTypeOK /\ MovedFirst
      BY <1>1 DEF ScriptInv
  <2>2. ~UNCHANGED <<sdk, old, nested>>
      BY <1>1 DEF Whole
  <2>3. RemoveOld \/ MoveToOld \/ InstallEnds
      BY <1>1, <2>2 DEF ScriptsNext, ConfigScript, BuildScript, InstallScript, Config, RemoveTemp,
          CopyIncludes, RemoveConfig, WriteConfig, UpgradeConfig, Build, BuildEnds, Install, dirs
  <2>4. target = t
    <3> SUFFICES ASSUME target # t PROVE Whole(t)' = Whole(t)
        BY <1>1
    <3>1. sdk'[t] = sdk[t] /\ old'[t] = old[t] /\ nested'[t] = nested[t]
        BY <2>1, <2>3 DEF RemoveOld, MoveToOld, InstallEnds, Copied, CopiedInPart, ScriptsTypeOK
    <3> QED BY <3>1 DEF Whole
  <2>5. CASE RemoveOld
    <3>1. line = "rm old" /\ sdk' = sdk
        BY <2>5 DEF RemoveOld, Then, Cut, Stop
    <3> QED BY <1>1, <2>4, <3>1 DEF Whole
  <2>6. CASE MoveToOld
    <3>1. t \in DOMAIN sdk /\ t \in DOMAIN old /\ t \in DOMAIN nested
        BY <1>1, <2>1 DEF ScriptsTypeOK
    <3> QED BY <1>1, <2>4, <2>6, <3>1 DEF MoveToOld, Whole, Nothing
  <2>7. CASE InstallEnds
    <3>1. line = "cp" /\ old' = old /\ nested' = nested
        BY <2>7 DEF InstallEnds, Stop
    <3>2. sdk[t] # Nothing
        BY <1>1, <3>1 DEF Whole, Nothing
    <3> QED BY <2>1, <2>4, <3>1, <3>2 DEF MovedFirst
  <2> QED BY <2>3, <2>5, <2>6, <2>7
<1>2. ASSUME ScriptInv, [ScriptsNext]_scriptVars
      PROVE  [\A t \in Targets : Lost(t) => Known(t)]_scriptVars
    BY <1>1, <1>2
<1>3. ScriptInv /\ [ScriptsNext]_scriptVars => [\A t \in Targets : Lost(t) => Known(t)]_scriptVars
    BY <1>2
<1> QED BY <1>3, AlwaysScriptInv, PTL DEF ScriptsSpec, KeepsTheLast

\* A success that install-<target>.sh reports puts all of a whole build in its
\* place, and nothing beside it unless its mv has failed.
THEOREM InstalledAsReportedHolds == ScriptsSpec => []InstalledAsReported
<1>1. ScriptInv => InstalledAsReported
    BY DEF ScriptInv
<1> QED BY <1>1, AlwaysScriptInv, PTL

\* A build is without the includes of its target only if the config script was
\* stopped before the old .config was gone, or failed to remove and to overwrite
\* it, or failed to copy.
THEOREM BuildsWithOwnIncludesHolds == ScriptsSpec => []BuildsWithOwnIncludes
<1>1. ScriptInv => BuildsWithOwnIncludes
    BY DEF ScriptInv, ScriptOfLine, IncludesFollow, Excused, BuildsWithOwnIncludes, ConfigLines
<1> QED BY <1>1, AlwaysScriptInv, PTL
=============================================================================
