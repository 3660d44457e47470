-------------------------- MODULE AudioEngineProofs --------------------------
(***************************************************************************)
(* Proofs about AudioEngine, for any number of channels, any buffers a     *)
(* device may deliver and any number of callbacks and clicks.              *)
(***************************************************************************)
EXTENDS AudioEngine, TLAPS

-----------------------------------------------------------------------------
\* The bypass flag.

\* While a device is being prepared the copy of the flag is what the button shows,
\* because the thread that prepares it is the one that handles clicks.
KeptInv ==
  /\ prepareStep = "idle" => bypassEnabled = toggled
  /\ prepareStep # "idle" => current.bypass = toggled

\* A callback changes neither the flag nor the button.
LEMMA CallbackKeepsSettings ==
  ASSUME (\E a \in Arguments : Call(a)) \/ LoadBypass \/ CopyChannel \/ CountBlock
  PROVE  UNCHANGED <<settings, guiVars, prepareVars>>
BY DEF Call, LoadBypass, CopyChannel, CopyRow, CountBlock

\* If buttons and preparation share a thread, a toggled bypass stays toggled.
THEOREM BypassKept == ASSUME ~OwnThread PROVE Spec => []BypassIsKept
<1>1. Init => KeptInv
  BY DEF Init, InitEngine, KeptInv
<1>2. KeptInv /\ [Next]_vars => KeptInv'
  <2> SUFFICES ASSUME KeptInv, [Next]_vars PROVE KeptInv'
    OBVIOUS
  <2> USE DEF KeptInv, settings, guiVars, prepareVars
  <2>1. CASE (\E a \in Arguments : Call(a)) \/ LoadBypass \/ CopyChannel \/ CountBlock
    <3>1. UNCHANGED <<settings, guiVars, prepareVars>>
      BY <2>1, CallbackKeepsSettings
    <3> QED BY <3>1
  <2>2. CASE ClickBypass
    BY <2>2 DEF ClickBypass, GuiIsFree
  <2>3. CASE ClickReset
    BY <2>3 DEF ClickReset
  <2>4. CASE ResetXruns
    BY <2>4 DEF ResetXruns
  <2>5. ASSUME NEW d \in Devices, ReadSettings(d) PROVE KeptInv'
    BY <2>5 DEF ReadSettings, CanPrepare
  <2>6. CASE StoreRate
    BY <2>6 DEF StoreRate
  <2>7. CASE StoreBlockSize
    BY <2>7 DEF StoreBlockSize
  <2>8. CASE StoreBypass
    BY <2>8 DEF StoreBypass
  <2>9. CASE UNCHANGED vars
    BY <2>9 DEF vars
  <2> QED BY <2>1, <2>2, <2>3, <2>4, <2>5, <2>6, <2>7, <2>8, <2>9 DEF Next
<1>3. KeptInv => BypassIsKept
  BY DEF KeptInv, BypassIsKept
<1> QED BY <1>1, <1>2, <1>3, PTL DEF Spec

-----------------------------------------------------------------------------
\* What a callback returns.

\* The channel an output channel is copied from is one of the input's, and for the
\* channels that are on both sides it is the same.
LEMMA SourceIsInput ==
  ASSUME NEW c \in Nat, NEW n \in Nat, n > 0
  PROVE  /\ SourceChannel(c, n) \in 0 .. n - 1
         /\ c < n => SourceChannel(c, n) = c
<1>1. CASE n = 1
  BY <1>1 DEF SourceChannel
<1>2. CASE n # 1
  <2>1. ASSUME NEW a \in Int, NEW b \in Int, a <= b PROVE Min({a, b}) = a /\ Min({b, a}) = a
    BY <2>1 DEF Min
  <2>2. CASE c <= n - 1
    BY <1>2, <2>1, <2>2 DEF SourceChannel
  <2>3. CASE n - 1 <= c
    BY <1>2, <2>1, <2>3 DEF SourceChannel
  <2> QED BY <2>2, <2>3
<1> QED BY <1>1, <1>2

\* What BlockIsWhole says channel c gets.
Wanted(c) ==
  LET source == SourceChannel(c, args.in.channels)
  IN IF shouldBypass /\ HasInput /\ source \in args.in.present THEN Input(source) ELSE Silent

\* Until the loop is done, the input rows are as they were delivered if they are still
\* to be read, also those that were overwritten; the rows written are right.
RowInv ==
  /\ args \in Arguments /\ calls \in Nat
  /\ audioStep \in {"idle", "flag", "copy"} /\ (audioStep # "idle" => calls > 0)
  /\ calls > 0 => inRows \in [args.in.present -> Int] /\ outRows \in [args.out.present -> Int]
  /\ audioStep = "flag" => \A c \in args.in.present : inRows[c] = Input(c)
  /\ audioStep = "copy" =>
       /\ channel \in 0 .. args.out.channels
       /\ shouldBypass => \A c \in args.in.present : inRows[c] = Input(c)
       /\ \A c \in args.out.present : c < channel => outRows[c] = Wanted(c)
  /\ audioStep = "idle" /\ calls > 0 /\ args.out.given =>
       \A c \in args.out.present : outRows[c] = Wanted(c)

\* The steps of the other threads.
LEMMA OthersKeepRows ==
  ASSUME \/ ClickBypass \/ ClickReset \/ ResetXruns \/ (\E d \in Devices : ReadSettings(d))
         \/ StoreRate \/ StoreBlockSize \/ StoreBypass \/ UNCHANGED vars
  PROVE  UNCHANGED callVars
BY DEF ClickBypass, ClickReset, ResetXruns, ReadSettings, StoreRate, StoreBlockSize, StoreBypass,
       vars

\* What is delivered is whole, whatever is used in place.
LEMMA Delivered ==
  ASSUME NEW a \in Arguments, Deliver(a)
  PROVE  /\ args' = a
         /\ inRows' \in [a.in.present -> Int] /\ outRows' \in [a.out.present -> Int]
         /\ \A c \in a.in.present : inRows'[c] = Input(c)
<1>1. a.in.present \subseteq Int /\ a.out.present \subseteq Int
  BY ArgumentsAssumption DEF BufferOK
<1>2. \A c \in Int : Input(c) \in Int
  BY DEF Input
<1>3. inRows' = [c \in a.in.present |-> Input(c)]
  BY DEF Deliver
<1>4. outRows' = [c \in a.out.present |->
                    IF a.inPlace /\ c \in a.in.present THEN Input(c) ELSE Leftover]
  BY DEF Deliver
<1>5. Leftover \in Int
  BY DEF Leftover
<1>6. outRows' \in [a.out.present -> Int]
  BY <1>1, <1>2, <1>4, <1>5
<1> QED BY <1>1, <1>2, <1>3, <1>6 DEF Deliver

\* A row is copied from a row that nothing has overwritten with anything else.
LEMMA RowIsWanted ==
  ASSUME RowInv, audioStep = "copy", NEW c \in Nat
  PROVE  /\ RowFor(c, shouldBypass) = Wanted(c)
         /\ Wanted(c) \in Int
         /\ c \in args.in.present /\ shouldBypass => Wanted(c) = Input(c)
<1> DEFINE source == SourceChannel(c, args.in.channels)
<1>1. /\ args.in.channels \in Nat /\ args.in.present \subseteq Nat
      /\ \A k \in args.in.present : k < args.in.channels /\ Input(k) \in Int
  BY ArgumentsAssumption DEF RowInv, BufferOK, Input
<1>2. CASE shouldBypass /\ HasInput /\ source \in args.in.present
  <2>1. inRows[source] = Input(source)
    BY <1>2 DEF RowInv
  <2>2. RowFor(c, shouldBypass) = Input(source) /\ Wanted(c) = Input(source)
    BY <1>2, <2>1 DEF RowFor, Wanted, ReadsMissing
  <2>3. c \in args.in.present => source = c
    BY <1>1, SourceIsInput
  <2> QED BY <1>1, <1>2, <2>2, <2>3
<1>3. CASE ~(shouldBypass /\ HasInput /\ source \in args.in.present)
  <2>1. RowFor(c, shouldBypass) = Silent /\ Wanted(c) = Silent /\ Silent \in Int
    BY <1>3 DEF RowFor, Wanted, ReadsMissing, Silent
  <2>2. c \in args.in.present => HasInput /\ source = c
    <3>1. c \in args.in.present => args.in.given
      BY ArgumentsAssumption DEF RowInv, BufferOK
    <3> QED BY <1>1, <3>1, SourceIsInput DEF HasInput
  <2> QED BY <1>3, <2>1, <2>2
<1> QED BY <1>2, <1>3

\* Every turn of the loop leaves the rows right up to its channel.
THEOREM RowInvariance == Spec => []RowInv
<1>1. Init => RowInv
  <2> SUFFICES ASSUME Init PROVE RowInv
    OBVIOUS
  <2>1. args \in Arguments
    BY ArgumentsAssumption DEF Init
  <2>2. calls = 0 /\ audioStep = "idle"
    BY DEF Init
  <2> QED BY <2>1, <2>2 DEF RowInv
<1>2. RowInv /\ [Next]_vars => RowInv'
  <2> SUFFICES ASSUME RowInv, [Next]_vars PROVE RowInv'
    OBVIOUS
  <2>1. ASSUME NEW a \in Arguments, Call(a) PROVE RowInv'
    <3>1. /\ args' = a
          /\ inRows' \in [a.in.present -> Int] /\ outRows' \in [a.out.present -> Int]
          /\ \A c \in a.in.present : inRows'[c] = Input(c)
      BY <2>1, Delivered DEF Call
    <3>2. calls' \in Nat /\ calls' > 0
      BY <2>1 DEF Call, RowInv
    <3>3. audioStep' = (IF a.out.given THEN "flag" ELSE "idle")
      BY <2>1 DEF Call
    <3> QED BY <3>1, <3>2, <3>3 DEF RowInv
  <2>2. CASE LoadBypass
    <3>1. /\ audioStep = "flag" /\ audioStep' = "copy" /\ channel' = 0
          /\ UNCHANGED <<args, inRows, outRows, calls>>
      BY <2>2 DEF LoadBypass
    <3>2. args.out.channels \in Nat /\ args.out.present \subseteq Nat
      BY ArgumentsAssumption DEF RowInv, BufferOK
    <3>3. \A c \in args.out.present : ~(c < channel')
      BY <3>1, <3>2
    <3> QED BY <3>1, <3>2, <3>3 DEF RowInv
  <2>3. CASE CopyChannel
    <3>1. /\ audioStep = "copy" /\ channel < args.out.channels /\ channel' = channel + 1
          /\ UNCHANGED <<audioStep, args, shouldBypass, calls>>
      BY <2>3 DEF CopyChannel, CopyRow
    <3>2. args.out.channels \in Nat /\ args.out.present \subseteq Nat /\ channel \in Nat
      BY <3>1, ArgumentsAssumption DEF RowInv, BufferOK
    <3>3. channel' \in 0 .. args.out.channels
      BY <3>1, <3>2
    <3>4. \A c : Wanted(c)' = Wanted(c)
      BY <3>1 DEF Wanted, HasInput
    <3>5. CASE channel \notin args.out.present
      <4>1. UNCHANGED <<inRows, outRows>>
        BY <2>3, <3>5 DEF CopyChannel, CopyRow
      <4>2. \A c \in args.out.present : c < channel + 1 => c < channel
        BY <3>2, <3>5
      <4>3. \A c \in args.out.present : c < channel' => outRows'[c] = Wanted(c)'
        BY <3>1, <3>4, <4>1, <4>2 DEF RowInv
      <4> QED BY <3>1, <3>3, <4>1, <4>3 DEF RowInv
    <3>6. CASE channel \in args.out.present
      <4> DEFINE row == RowFor(channel, shouldBypass)
      <4>1. row = Wanted(channel) /\ row \in Int
            /\ (channel \in args.in.present /\ shouldBypass => row = Input(channel))
        BY <3>1, <3>2, RowIsWanted
      <4>2. /\ outRows' = [outRows EXCEPT ![channel] = row]
            /\ inRows' = IF args.inPlace /\ channel \in args.in.present
                         THEN [inRows EXCEPT ![channel] = row] ELSE inRows
        BY <2>3, <3>6 DEF CopyChannel, CopyRow, WriteRow
      <4> HIDE DEF row
      <4>3. inRows \in [args.in.present -> Int] /\ outRows \in [args.out.present -> Int]
        BY <3>1 DEF RowInv
      <4>4. inRows' \in [args.in.present -> Int] /\ outRows' \in [args.out.present -> Int]
        BY <4>1, <4>2, <4>3
      <4>5. shouldBypass => \A c \in args.in.present : inRows'[c] = Input(c)
        BY <3>1, <4>1, <4>2, <4>3 DEF RowInv
      <4>6. \A c \in args.out.present : c < channel' => outRows'[c] = Wanted(c)'
        <5> SUFFICES ASSUME NEW c \in args.out.present, c < channel + 1
                     PROVE outRows'[c] = Wanted(c)
          BY <3>1, <3>4
        <5>1. CASE c = channel
          BY <4>1, <4>2, <4>3, <5>1
        <5>2. CASE c # channel
          <6>1. c < channel
            BY <3>2, <5>2
          <6>2. outRows'[c] = outRows[c]
            BY <4>2, <4>3, <5>2
          <6> QED BY <3>1, <6>1, <6>2 DEF RowInv
        <5> QED BY <5>1, <5>2
      <4> QED BY <3>1, <3>3, <4>4, <4>5, <4>6 DEF RowInv
    <3> QED BY <3>5, <3>6
  <2>4. CASE CountBlock
    <3>1. /\ audioStep = "copy" /\ audioStep' = "idle" /\ channel = args.out.channels
          /\ UNCHANGED <<args, inRows, outRows, shouldBypass, calls>>
      BY <2>4 DEF CountBlock
    <3>2. \A c \in args.out.present : c < channel
      BY <3>1, ArgumentsAssumption DEF RowInv, BufferOK
    <3>3. \A c : Wanted(c)' = Wanted(c)
      BY <3>1 DEF Wanted, HasInput
    <3>4. \A c \in args.out.present : outRows'[c] = Wanted(c)'
      BY <3>1, <3>2, <3>3 DEF RowInv
    <3> QED BY <3>1, <3>4 DEF RowInv
  <2>5. CASE \/ ClickBypass \/ ClickReset \/ ResetXruns \/ (\E d \in Devices : ReadSettings(d))
             \/ StoreRate \/ StoreBlockSize \/ StoreBypass \/ UNCHANGED vars
    <3>1. UNCHANGED callVars
      BY <2>5, OthersKeepRows
    <3>2. \A c : Wanted(c)' = Wanted(c)
      BY <3>1 DEF Wanted, HasInput, callVars
    <3> QED BY <3>1, <3>2 DEF RowInv, callVars
  <2> QED BY <2>1, <2>2, <2>3, <2>4, <2>5 DEF Next
<1> QED BY <1>1, <1>2, PTL DEF Spec

\* A block is audible or mute as a whole, on any number of channels, in place or not.
THEOREM BlockWhole == Spec => []BlockIsWhole
<1>1. RowInv => BlockIsWhole
  BY DEF RowInv, BlockIsWhole, Wanted
<1> QED BY <1>1, RowInvariance, PTL

-----------------------------------------------------------------------------
\* The counters and the settings.

Rates == {48000} \cup {d.rate : d \in Devices}
Sizes == {128} \cup {d.size : d \in Devices}

\* What is stored comes from a device.
SettingsOK ==
  /\ sampleRate \in Rates /\ blockSize \in Sizes
  /\ prepareStep \in {"idle", "rate", "size", "bypass"}
  /\ prepareStep # "idle" =>
       current.rate \in Rates /\ current.size \in Sizes /\ current.bypass \in BOOLEAN

FlagsOK ==
  /\ bypassEnabled \in BOOLEAN /\ toggled \in BOOLEAN /\ shouldBypass \in BOOLEAN
  /\ resetStep \in {"idle", "xruns"}

\* A callback that is still running is not among the processed blocks.
CountersOK ==
  /\ calls \in 0 .. MaxCalls /\ clicks \in 0 .. MaxClicks
  /\ processedBlocks \in 0 .. calls
  /\ audioStep # "idle" => processedBlocks < calls
  /\ xrunCount \in Nat /\ xrunsBefore \in Nat \cup {-1}

CallOK ==
  /\ audioStep \in {"idle", "flag", "copy"} /\ args \in Arguments
  /\ DOMAIN inRows \subseteq args.in.present /\ DOMAIN outRows \subseteq args.out.present
  /\ channel \in 0 .. args.out.channels \/ audioStep # "copy"

\* The parts of the type invariant, one step at a time.
LEMMA SettingsStep ==
  ASSUME SettingsOK, FlagsOK, [Next]_vars PROVE SettingsOK' /\ FlagsOK'
<1> USE DEF SettingsOK, FlagsOK, settings, guiVars, prepareVars
<1>1. CASE (\E a \in Arguments : Call(a)) \/ CopyChannel \/ CountBlock
  <2>1. UNCHANGED <<settings, guiVars, prepareVars, shouldBypass>>
    BY <1>1 DEF Call, CopyChannel, CopyRow, CountBlock
  <2> QED BY <2>1
<1>2. CASE LoadBypass
  BY <1>2 DEF LoadBypass
<1>3. CASE ClickBypass
  <2>1. /\ toggled' = ~toggled /\ bypassEnabled' = toggled'
        /\ UNCHANGED <<sampleRate, blockSize, shouldBypass, resetStep, prepareStep, current>>
    BY <1>3 DEF ClickBypass, callVars
  <2>2. FlagsOK'
    BY <2>1
  <2>3. SettingsOK'
    BY <2>1
  <2> QED BY <2>2, <2>3
<1>4. CASE ClickReset
  BY <1>4 DEF ClickReset, callVars
<1>5. CASE ResetXruns
  BY <1>5 DEF ResetXruns, callVars
<1>6. ASSUME NEW d \in Devices, ReadSettings(d) PROVE SettingsOK' /\ FlagsOK'
  <2>1. /\ current' = [rate |-> d.rate, size |-> d.size, bypass |-> bypassEnabled]
        /\ prepareStep' = "rate"
        /\ UNCHANGED <<settings, toggled, resetStep, shouldBypass>>
    BY <1>6 DEF ReadSettings, callVars
  <2>2. d.rate \in Rates /\ d.size \in Sizes
    BY DEF Rates, Sizes
  <2> HIDE DEF settings
  <2>3. sampleRate' = sampleRate /\ blockSize' = blockSize /\ bypassEnabled' = bypassEnabled
    BY <2>1 DEF settings
  <2>4. SettingsOK'
    BY <2>1, <2>2, <2>3
  <2>5. FlagsOK'
    BY <2>1, <2>3
  <2> QED BY <2>4, <2>5
<1>7. CASE StoreRate
  BY <1>7 DEF StoreRate, callVars
<1>8. CASE StoreBlockSize
  BY <1>8 DEF StoreBlockSize, callVars
<1>9. CASE StoreBypass
  BY <1>9 DEF StoreBypass, callVars
<1>10. CASE UNCHANGED vars
  BY <1>10 DEF vars, callVars
<1> QED BY <1>1, <1>2, <1>3, <1>4, <1>5, <1>6, <1>7, <1>8, <1>9, <1>10 DEF Next

\* Every step counts within the bounds.
LEMMA CountersStep ==
  ASSUME CallOK, CountersOK, [Next]_vars PROVE CountersOK'
<1> USE BoundAssumption DEF CountersOK
<1>1. ASSUME NEW a \in Arguments, Call(a) PROVE CountersOK'
  <2>1. /\ calls < MaxCalls /\ calls' = calls + 1
        /\ xrunsBefore' = xrunCount /\ xrunCount' \in {xrunCount, xrunCount + 1}
        /\ UNCHANGED <<processedBlocks, clicks>>
    BY <1>1 DEF Call, guiVars
  <2> QED BY <2>1
<1>2. CASE LoadBypass
  <2>1. audioStep = "flag" /\ UNCHANGED <<counters, calls, clicks>>
    BY <1>2 DEF LoadBypass, guiVars
  <2> QED BY <2>1 DEF counters
<1>3. CASE CopyChannel
  <2>1. /\ xrunCount' \in {xrunCount, xrunCount + 1}
        /\ UNCHANGED <<processedBlocks, xrunsBefore, audioStep, calls, clicks>>
    BY <1>3 DEF CopyChannel, CopyRow, guiVars
  <2> QED BY <2>1
<1>4. CASE CountBlock
  <2>1. /\ audioStep = "copy" /\ audioStep' = "idle" /\ processedBlocks' = processedBlocks + 1
        /\ UNCHANGED <<xrunCount, xrunsBefore, calls, clicks>>
    BY <1>4 DEF CountBlock, guiVars
  <2> QED BY <2>1
<1>5. CASE ClickBypass \/ \E d \in Devices : ReadSettings(d)
  <2>1. /\ clicks < MaxClicks /\ clicks' = clicks + 1
        /\ UNCHANGED <<counters, audioStep, calls>>
    BY <1>5 DEF ClickBypass, ReadSettings, CanPrepare, callVars
  <2> QED BY <2>1 DEF counters
<1>6. CASE ClickReset
  <2>1. /\ clicks < MaxClicks /\ clicks' = clicks + 1 /\ processedBlocks' = 0
        /\ UNCHANGED <<xrunCount, xrunsBefore, audioStep, calls>>
    BY <1>6 DEF ClickReset, callVars
  <2>2. audioStep # "idle" => 0 < calls
    OBVIOUS
  <2> QED BY <2>1, <2>2
<1>7. CASE ResetXruns
  <2>1. /\ xrunCount' = 0 /\ xrunsBefore' = -1
        /\ UNCHANGED <<processedBlocks, audioStep, calls, clicks>>
    BY <1>7 DEF ResetXruns, callVars
  <2> QED BY <2>1
<1>8. CASE StoreRate \/ StoreBlockSize \/ StoreBypass \/ UNCHANGED vars
  <2>1. UNCHANGED <<counters, audioStep, calls, clicks>>
    BY <1>8 DEF StoreRate, StoreBlockSize, StoreBypass, vars, callVars, guiVars
  <2> QED BY <2>1 DEF counters
<1> QED BY <1>1, <1>2, <1>3, <1>4, <1>5, <1>6, <1>7, <1>8 DEF Next

\* Every step keeps what a call has laid out.
LEMMA CallStep ==
  ASSUME CallOK, [Next]_vars PROVE CallOK'
<1> USE DEF CallOK
<1>1. ASSUME NEW a \in Arguments, Call(a) PROVE CallOK'
  <2>1. /\ args' = a /\ audioStep' \in {"idle", "flag"}
        /\ DOMAIN inRows' = a.in.present /\ DOMAIN outRows' = a.out.present
    BY <1>1 DEF Call, Deliver
  <2> QED BY <2>1
<1>2. CASE LoadBypass
  <2>1. /\ channel' = 0 /\ audioStep' = "copy" /\ UNCHANGED <<args, inRows, outRows>>
    BY <1>2 DEF LoadBypass
  <2>2. args.out.channels \in Nat
    BY ArgumentsAssumption DEF BufferOK
  <2>3. 0 \in 0 .. args.out.channels
    BY <2>2
  <2> QED BY <2>1, <2>3
<1>3. CASE CopyChannel
  <2>1. /\ audioStep = "copy" /\ channel < args.out.channels /\ channel' = channel + 1
        /\ UNCHANGED <<audioStep, args>>
    BY <1>3 DEF CopyChannel, CopyRow
  <2>2. DOMAIN inRows' = DOMAIN inRows /\ DOMAIN outRows' = DOMAIN outRows
    BY <1>3 DEF CopyChannel, CopyRow, WriteRow
  <2>3. args.out.channels \in Nat
    BY ArgumentsAssumption DEF BufferOK
  <2>4. channel' \in 0 .. args.out.channels
    BY <2>1, <2>3
  <2> QED BY <2>1, <2>2, <2>4
<1>4. CASE CountBlock
  BY <1>4 DEF CountBlock
<1>5. CASE \/ ClickBypass \/ ClickReset \/ ResetXruns \/ (\E d \in Devices : ReadSettings(d))
           \/ StoreRate \/ StoreBlockSize \/ StoreBypass \/ UNCHANGED vars
  <2>1. UNCHANGED callVars
    BY <1>5, OthersKeepRows
  <2> QED BY <2>1 DEF callVars
<1> QED BY <1>1, <1>2, <1>3, <1>4, <1>5 DEF Next

\* Type correctness: the settings are a device's, the counters count what they say, and a
\* callback has at most the rows that were delivered to it.
THEOREM TypeCorrect == Spec => []TypeOK
<1> DEFINE Types == SettingsOK /\ FlagsOK /\ CountersOK /\ CallOK
<1>1. Init => Types
  <2> SUFFICES ASSUME Init PROVE Types
    OBVIOUS
  <2>1. SettingsOK /\ FlagsOK
    <3>1. sampleRate = 48000 /\ blockSize = 128 /\ prepareStep = "idle"
      BY DEF Init, InitEngine
    <3>2. 48000 \in Rates /\ 128 \in Sizes
      BY DEF Rates, Sizes
    <3>3. SettingsOK
      BY <3>1, <3>2 DEF SettingsOK
    <3>4. bypassEnabled = TRUE /\ toggled = TRUE /\ shouldBypass = FALSE /\ resetStep = "idle"
      BY DEF Init, InitEngine
    <3>5. FlagsOK
      BY <3>4, Zenon DEF FlagsOK
    <3> QED BY <3>3, <3>5
  <2>2. CountersOK
    BY BoundAssumption DEF Init, InitEngine, CountersOK
  <2>3. args \in Arguments
    BY ArgumentsAssumption DEF Init
  <2>4. DOMAIN inRows = {} /\ DOMAIN outRows = {} /\ audioStep = "idle"
    BY DEF Init
  <2> QED BY <2>1, <2>2, <2>3, <2>4 DEF CallOK
<1>2. Types /\ [Next]_vars => Types'
  BY SettingsStep, CountersStep, CallStep
<1>3. Types => TypeOK
  BY DEF SettingsOK, FlagsOK, CountersOK, CallOK, TypeOK, Rates, Sizes
<1> QED BY <1>1, <1>2, <1>3, PTL DEF Spec
=============================================================================
