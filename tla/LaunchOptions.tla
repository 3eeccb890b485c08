----------------------------- MODULE LaunchOptions -----------------------------
(***************************************************************************)
(* What a profile's browser is started with: browser/fingerprint.py and    *)
(* browser/runtime.py.  "seed" stands for all that the dialog writes of a  *)
(* fingerprint but the viewport.  Command line switches are a function     *)
(* from switches to values: the last of several equal switches counts.     *)
(***************************************************************************)
CONSTANT Nothing    \* a field of a profile that is not set

Settings == [enabled : BOOLEAN, headless : BOOLEAN, fit_screen : BOOLEAN, filter_no_sandbox : BOOLEAN]

(* The switches f, followed by the switches g.                             *)
Then(f, g) == [x \in DOMAIN f \cup DOMAIN g |-> IF x \in DOMAIN g THEN g[x] ELSE f[x]]

Switches(names, v) == [x \in names |-> v]

(* Playwright's own switches that matter here.                             *)
DefaultArgs == Switches({"no_sandbox"}, "default")

(* CloakBrowser's own switches: a seed is drawn for each start.            *)
DefaultStealthArgs == Switches({"seed", "no_sandbox"}, "drawn")

StealthArgsWithoutNoSandbox ==
    [x \in DOMAIN DefaultStealthArgs \ {"no_sandbox"} |-> DefaultStealthArgs[x]]

ShouldFitScreen(s) == s.fit_screen /\ ~ s.headless

(* Position and size of the window and of the screen.                      *)
HeadedWindowArgs == Switches({"window", "screen"}, "monitor")

CloakbrowserArgs(s) ==
    Then(IF s.filter_no_sandbox THEN StealthArgsWithoutNoSandbox ELSE Switches({}, Nothing),
         IF ShouldFitScreen(s) THEN HeadedWindowArgs ELSE Switches({}, Nothing))

(* Only what the profile sets is passed on.                                *)
FingerprintArgs(row) ==
    IF row.seed = Nothing THEN Switches({}, Nothing) ELSE Switches({"seed"}, row.seed)

(* The switches of Playwright's that CloakBrowser ignores: a list of its    *)
(* module, extended before the launch, for good; the settings stay as long *)
(* as the process.                                                         *)
IgnoreDefaultArgs(s) == IF s.filter_no_sandbox THEN {"no_sandbox"} ELSE {}

Viewport(row, s) ==
    IF row.viewport # Nothing THEN row.viewport
    ELSE IF ShouldFitScreen(s) THEN "window" ELSE "default"

(* Mutant: the default switches come after those of the profile.           *)
LaunchContextDefaultsLast(row, s) ==
    [args |-> Then(FingerprintArgs(row), CloakbrowserArgs(s)),
     viewport |-> Viewport(row, s),
     extension_paths |-> row.extension_paths,
     stealth_args |-> ~ s.filter_no_sandbox,
     ignored |-> IgnoreDefaultArgs(s)]

(* Mutant: CloakBrowser's list is not extended.                            *)
LaunchContextUnpatched(row, s) ==
    [args |-> Then(CloakbrowserArgs(s), FingerprintArgs(row)),
     viewport |-> Viewport(row, s),
     extension_paths |-> row.extension_paths,
     stealth_args |-> ~ s.filter_no_sandbox,
     ignored |-> {}]

(* CloakBrowser.  Without a viewport the page fills the window or has      *)
(* CloakBrowser's default size.                                            *)
LaunchContext(row, s) ==
    [args |-> Then(CloakbrowserArgs(s), FingerprintArgs(row)),
     viewport |-> Viewport(row, s),
     extension_paths |-> row.extension_paths,
     stealth_args |-> ~ s.filter_no_sandbox,
     ignored |-> IgnoreDefaultArgs(s)]

(* The command line that CloakBrowser and Playwright make of the options.  *)
CommandLine(o) ==
    Then(Then([x \in DOMAIN DefaultArgs \ o.ignored |-> DefaultArgs[x]],
              IF o.stealth_args THEN DefaultStealthArgs ELSE Switches({}, Nothing)),
         o.args)

(* Playwright's Chromium takes no fingerprint.                             *)
PlaywrightContext(row) ==
    [args |-> IF row.extension_paths = Nothing THEN Switches({}, Nothing)
              ELSE Switches({"disable_extensions_except"}, row.extension_paths),
     viewport |-> "default"]

(* A profile without a runtime has the default, CloakBrowser.              *)
IsCloakbrowser(row) == row.runtime = Nothing

(* CloakBrowser may be disabled: the profile does not open.                *)
Opens(row, s) == IsCloakbrowser(row) => s.enabled

RuntimeFor(row, s) == IF IsCloakbrowser(row) THEN LaunchContext(row, s) ELSE PlaywrightContext(row)

================================================================================
