----------------------------- MODULE MCParts -------------------------------
(* The parts that share no state with one another, each in behaviours of   *)
(* its own: focus names the part that moves, the others keep their initial *)
(* state.  See each module for the instance's purpose.                     *)
EXTENDS CuneoOverlay, TwinOverlay, ComplianceOverlay, LivenessIndicators,
        ObserverTicker, BundleButton, TilePreview, LabVerify, LatencyBench,
        JwksCache, McpDispatch, MerkleProof

CONSTANT MaxLeaves  \* bound: cells of an epoch

VARIABLE focus

partsVars == <<focus, pilotVars, twinVars, complianceVars, stripVars, tickerVars,
               bundleVars, tileVars, verifyVars, benchVars, jwksVars, mcpVars, vars>>

\* Two devices in one station, one of them with a signature that is not its
\* own, and one device that is not native in another.
MCInstalled == [s \in Stations |-> IF s = "magliano" THEN {1, 2} ELSE {3}]
MCCategory == [d \in Devices |-> IF d = 1 THEN "meter" ELSE "camera"]

\* Two cells under one ancestor, one under another.
MCRollup == [c \in FineCells |-> IF c = 3 THEN 20 ELSE 10]

\* A cell that is compliant while fresh, and one outside the EU.
MCFacts == [c \in ScoredCells |->
    [signature |-> TRUE, jurisdiction |-> c = "home", delegation |-> TRUE, epoch |-> 0]]

\* Two records of different tiles, and one without a tile.
MCTileOf == [r \in Records |->
    IF r = "north" THEN "t1" ELSE IF r = "south" THEN "t2" ELSE NoTile]

\* A genuine chain 1, 2, 3; a chain of another root 4; certificates issued in
\* the name of one key and signed by another, out of force, or incomplete.
Cert(s, i, b) ==
    [subject |-> s, issuer |-> i, signedBy |-> b, current |-> TRUE, complete |-> TRUE]
MCCertPool ==
    {Cert(1, 1, 1), Cert(2, 1, 1), Cert(3, 2, 2), Cert(4, 4, 4), Cert(2, 1, 4),
     Cert(2, 4, 4), Cert(3, 4, 4), [Cert(3, 2, 2) EXCEPT !.current = FALSE],
     [Cert(3, 2, 2) EXCEPT !.complete = FALSE]}
NoRecord ==
    [version |-> 2, readable |-> FALSE, certs |-> [i \in 1 .. 3 |-> Cert(1, 1, 1)],
     signer |-> 1, signedBy |-> 1]

\* An unreadable item, one of another version, and of each kind of method one
\* with an id; a notice and a call without one.
Item(e, i, m) == [envelope |-> e, id |-> i, method |-> m]
MCItems ==
    {Item("unreadable", FALSE, "plain"), Item("version", TRUE, "tool"),
     Item("ok", TRUE, "plain"), Item("ok", TRUE, "notice"), Item("ok", TRUE, "tool"),
     Item("ok", FALSE, "tool"), Item("ok", TRUE, "no_params")}
MCConfigs == [oauth : BOOLEAN, keys : SUBSET {"main", "demo"}, production : BOOLEAN]
MCConfig == [oauth |-> TRUE, keys |-> {"main"}, production |-> TRUE]

\* Epochs of up to MaxLeaves cells.  A content hash is a one-element tuple, an
\* inner node a pair.
MCLists == {[len |-> n, at |-> [i \in 0 .. n - 1 |-> <<i>>]] : n \in 0 .. MaxLeaves}
MCClaims == {<<0>>, <<1>>, <<MaxLeaves>>}
MCZero == <<>>

PartsInit ==
    /\ focus \in {"pilot", "twin", "compliance", "strip", "ticker", "bundle", "tile",
                  "verify", "bench", "jwks", "mcp", "merkle"}
    /\ PilotInit /\ (focus = "pilot" \/ ~pilotOn)
    /\ TwinInit
    /\ ComplianceInit /\ (focus = "compliance" \/ (~viewOn /\ slider = 0))
    /\ StripInit /\ (focus = "strip" \/ (~up /\ prevEpoch = 0))
    /\ TickerInit
    /\ BundleInit
    /\ TileInit
    /\ IF focus = "verify" THEN VerifyInit
       ELSE record = NoRecord /\ checked = <<>> /\ errors = 0 /\ verdict = "pending"
    /\ BenchInit
    /\ JwksInit
    /\ McpInit /\ (focus = "mcp" \/ config = MCConfig)
    /\ Init /\ (focus = "merkle" \/ leaves.len = 0)

\* The parts that do not move.
OthersStay ==
    /\ UNCHANGED focus
    /\ IF focus = "pilot" THEN TRUE ELSE UNCHANGED pilotVars
    /\ IF focus = "twin" THEN TRUE ELSE UNCHANGED twinVars
    /\ IF focus = "compliance" THEN TRUE ELSE UNCHANGED complianceVars
    /\ IF focus = "strip" THEN TRUE ELSE UNCHANGED stripVars
    /\ IF focus = "ticker" THEN TRUE ELSE UNCHANGED tickerVars
    /\ IF focus = "bundle" THEN TRUE ELSE UNCHANGED bundleVars
    /\ IF focus = "tile" THEN TRUE ELSE UNCHANGED tileVars
    /\ IF focus = "verify" THEN TRUE ELSE UNCHANGED verifyVars
    /\ IF focus = "bench" THEN TRUE ELSE UNCHANGED benchVars
    /\ IF focus = "jwks" THEN TRUE ELSE UNCHANGED jwksVars
    /\ IF focus = "mcp" THEN TRUE ELSE UNCHANGED mcpVars
    /\ IF focus = "merkle" THEN TRUE ELSE UNCHANGED vars

PartsNext ==
    \/ focus = "pilot" /\ PilotNext /\ OthersStay
    \/ focus = "twin" /\ TwinNext /\ OthersStay
    \/ focus = "compliance" /\ ComplianceNext /\ OthersStay
    \/ focus = "strip" /\ StripNext /\ OthersStay
    \/ focus = "ticker" /\ TickerNext /\ OthersStay
    \/ focus = "bundle" /\ BundleNext /\ OthersStay
    \/ focus = "tile" /\ TileNext /\ OthersStay
    \/ focus = "verify" /\ VerifyNext /\ OthersStay
    \/ focus = "bench" /\ BenchNext /\ OthersStay
    \/ focus = "jwks" /\ JwksNext /\ OthersStay
    \/ focus = "mcp" /\ McpNext /\ OthersStay
    \/ focus = "merkle" /\ Next /\ OthersStay

\* Each part's own fairness (TwinFairness, StripFairness, BundleFairness), in the
\* behaviours of that part.
PartsSpec ==
    /\ PartsInit /\ [][PartsNext]_partsVars
    /\ WF_twinVars(focus = "twin" /\ \E a \in states : StateArrives(a))
    /\ WF_stripVars(focus = "strip" /\ TickProbes)
    /\ WF_stripVars(focus = "strip" /\ ServeProbe)
    /\ WF_stripVars(focus = "strip" /\ Rerender)
    /\ \A ok \in BOOLEAN : WF_stripVars(focus = "strip" /\ ProbeAnswered(ok))
    /\ WF_bundleVars(focus = "bundle" /\ ToastGoes)
    /\ WF_bundleVars(focus = "bundle" /\ \E n \in summaries : SummaryArrives(n))
    /\ WF_bundleVars(focus = "bundle" /\ \E n \in DOMAIN downloads :
                                             PdfArrives(n) \/ Restore(n))
=============================================================================
