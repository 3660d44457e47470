---------------------------- MODULE AudioEngine ----------------------------
(***************************************************************************)
(* src/audio/AudioEngine.{h,cpp}: the audible path.  The audio thread      *)
(* copies input to output, or mutes it; the GUI thread toggles the bypass  *)
(* flag and resets the counters; the device is prepared, which reads the   *)
(* settings, changes two and writes all of them back                       *)
(* (MainComponent::prepareToPlay).  Nothing is locked: every access to an  *)
(* atomic that another thread writes is a step, and so is every channel of *)
(* a callback.                                                             *)
(*                                                                         *)
(* A row is the samples of a channel: the input of channel c, silence, or  *)
(* whatever was in an output buffer.  Buffers may be used in place: then   *)
(* the output rows are the input rows.                                     *)
(***************************************************************************)
EXTENDS Integers, FiniteSetsExt

CONSTANTS
  Arguments,        \* [in, out, inPlace] a callback may get; in and out are
                    \* [given, channels, present]: is there an array of pointers,
                    \* its length, the channels whose pointer is not null
  Devices,          \* [rate, size] a device may be prepared for
  OwnThread,        \* TRUE: a device is prepared on another thread than the buttons use
  MaxCalls,         \* bound: callbacks
  MaxClicks         \* bound: clicks on Bypass and on Reset, devices prepared

\* The pointers of an array are those of its channels, if there is an array.
BufferOK(b) ==
  /\ b.given \in BOOLEAN /\ b.channels \in Nat
  /\ b.present \subseteq 0 .. b.channels - 1
  /\ b.present # {} => b.given

ASSUME ArgumentsAssumption ==
  Arguments # {} /\ \A a \in Arguments : BufferOK(a.in) /\ BufferOK(a.out)
ASSUME FlagAssumption == OwnThread \in BOOLEAN
ASSUME BoundAssumption == MaxCalls \in Nat /\ MaxClicks \in Nat

VARIABLES
  sampleRate, blockSize, bypassEnabled, processedBlocks, xrunCount,
  audioStep, args, inRows, outRows, shouldBypass, channel,   \* the callback
  toggled,                     \* what the Bypass button shows
  resetStep,                   \* where resetCounters stands
  prepareStep, current,        \* where prepareToPlay stands, its copy of the settings
  calls, clicks,               \* counted for the bounds
  xrunsBefore                  \* history: xrunCount_ before the last callback, or -1 if it
                               \* was reset since

settings == <<sampleRate, blockSize, bypassEnabled>>
counters == <<processedBlocks, xrunCount, xrunsBefore>>
callVars == <<audioStep, args, inRows, outRows, shouldBypass, channel, calls>>
guiVars == <<toggled, resetStep, clicks>>
prepareVars == <<prepareStep, current>>
vars == <<settings, counters, callVars, guiVars, prepareVars>>

Silent == 0
Leftover == -1
Input(c) == c + 1

SourceChannel(c, channels) == IF channels = 1 THEN 0 ELSE Min({c, channels - 1})
HasInput == args.in.given /\ args.in.channels > 0

InitEngine ==
  /\ sampleRate = 48000 /\ blockSize = 128 /\ bypassEnabled = TRUE
  /\ processedBlocks = 0 /\ xrunCount = 0 /\ xrunsBefore = -1
Init ==
  /\ InitEngine
  /\ audioStep = "idle" /\ channel = 0 /\ shouldBypass = FALSE
  /\ args = CHOOSE a \in Arguments : TRUE
  /\ inRows = <<>> /\ outRows = <<>>
  /\ toggled = TRUE /\ resetStep = "idle"
  /\ prepareStep = "idle"
  /\ current = [rate |-> 0, size |-> 0, bypass |-> FALSE]
  /\ calls = 0 /\ clicks = 0

-----------------------------------------------------------------------------
\* The audio thread: processPassThrough.

\* The device delivers its buffers.
Deliver(a) ==
  /\ args' = a
  /\ inRows' = [c \in a.in.present |-> Input(c)]
  /\ outRows' = [c \in a.out.present |->
                   IF a.inPlace /\ c \in a.in.present THEN Input(c) ELSE Leftover]

Call(a) ==
  /\ audioStep = "idle" /\ prepareStep = "idle"
  /\ calls < MaxCalls
  /\ calls' = calls + 1
  /\ Deliver(a)
  /\ xrunsBefore' = xrunCount
  /\ IF a.out.given
     THEN audioStep' = "flag" /\ UNCHANGED xrunCount
     ELSE audioStep' = "idle" /\ xrunCount' = xrunCount + 1
  /\ UNCHANGED <<settings, processedBlocks, shouldBypass, channel, guiVars, prepareVars>>

LoadBypass ==
  /\ audioStep = "flag"
  /\ shouldBypass' = bypassEnabled
  /\ channel' = 0
  /\ audioStep' = "copy"
  /\ UNCHANGED <<settings, counters, args, inRows, outRows, calls, guiVars, prepareVars>>

\* The pointer channel c is copied from is missing; what the channel gets.
ReadsMissing(c, bypass) ==
  bypass /\ HasInput /\ SourceChannel(c, args.in.channels) \notin args.in.present

RowFor(c, bypass) ==
  IF bypass /\ HasInput /\ ~ReadsMissing(c, bypass)
  THEN inRows[SourceChannel(c, args.in.channels)]
  ELSE Silent

WriteRow(c, row) ==
  /\ outRows' = [outRows EXCEPT ![c] = row]
  /\ inRows' = IF args.inPlace /\ c \in args.in.present THEN [inRows EXCEPT ![c] = row] ELSE inRows

\* One turn of the loop over the channels.
CopyRow(bypass) ==
  /\ channel' = channel + 1
  /\ IF channel \in args.out.present
     THEN WriteRow(channel, RowFor(channel, bypass))
     ELSE UNCHANGED <<inRows, outRows>>
  /\ xrunCount' = IF channel \in args.out.present /\ ~ReadsMissing(channel, bypass)
                  THEN xrunCount ELSE xrunCount + 1
  /\ UNCHANGED <<settings, processedBlocks, xrunsBefore, audioStep, args, shouldBypass, calls,
                 guiVars, prepareVars>>

\* Mutant: the flag is read for every channel.
CopyChannelByFlag ==
  /\ audioStep = "copy"
  /\ channel < args.out.channels
  /\ CopyRow(bypassEnabled)

\* Mutant: the loop ends one channel late.
CopyChannelTooFar ==
  /\ audioStep = "copy"
  /\ channel <= args.out.channels
  /\ CopyRow(shouldBypass)

CopyChannel ==
  /\ audioStep = "copy"
  /\ channel < args.out.channels
  /\ CopyRow(shouldBypass)

CountBlock ==
  /\ audioStep = "copy"
  /\ channel = args.out.channels
  /\ processedBlocks' = processedBlocks + 1
  /\ audioStep' = "idle"
  /\ UNCHANGED <<settings, xrunCount, xrunsBefore, args, inRows, outRows, shouldBypass, channel,
                 calls, guiVars, prepareVars>>

-----------------------------------------------------------------------------
\* The GUI thread.  It prepares the device too, unless OwnThread.

GuiIsFree == resetStep = "idle" /\ (OwnThread \/ prepareStep = "idle")

\* A click on Bypass: the button toggles, and buttonClicked calls setBypass.
ClickBypass ==
  /\ GuiIsFree
  /\ clicks < MaxClicks
  /\ clicks' = clicks + 1
  /\ toggled' = ~toggled
  /\ bypassEnabled' = toggled'
  /\ UNCHANGED <<sampleRate, blockSize, counters, callVars, resetStep, prepareVars>>

\* A click on Reset: resetCounters, two stores.
ClickReset ==
  /\ GuiIsFree
  /\ clicks < MaxClicks
  /\ clicks' = clicks + 1
  /\ processedBlocks' = 0
  /\ resetStep' = "xruns"
  /\ UNCHANGED <<settings, xrunCount, xrunsBefore, callVars, toggled, prepareVars>>

ResetXruns ==
  /\ resetStep = "xruns"
  /\ xrunCount' = 0
  /\ xrunsBefore' = -1
  /\ resetStep' = "idle"
  /\ UNCHANGED <<settings, processedBlocks, callVars, toggled, clicks, prepareVars>>

\* prepareToPlay: settings, then configure, one store after the other.  No callback
\* runs while a device is being prepared.
CanPrepare ==
  /\ prepareStep = "idle"
  /\ audioStep = "idle"
  /\ OwnThread \/ resetStep = "idle"
  /\ clicks < MaxClicks

\* Mutant: the settings are not read but made anew, with the bypass they start with.
ReadSettingsDefault(d) ==
  /\ CanPrepare
  /\ clicks' = clicks + 1
  /\ current' = [rate |-> d.rate, size |-> d.size, bypass |-> TRUE]
  /\ prepareStep' = "rate"
  /\ UNCHANGED <<settings, counters, callVars, toggled, resetStep>>

ReadSettings(d) ==
  /\ CanPrepare
  /\ clicks' = clicks + 1
  /\ current' = [rate |-> d.rate, size |-> d.size, bypass |-> bypassEnabled]
  /\ prepareStep' = "rate"
  /\ UNCHANGED <<settings, counters, callVars, toggled, resetStep>>

StoreRate ==
  /\ prepareStep = "rate"
  /\ sampleRate' = current.rate
  /\ prepareStep' = "size"
  /\ UNCHANGED <<blockSize, bypassEnabled, counters, callVars, guiVars, current>>

StoreBlockSize ==
  /\ prepareStep = "size"
  /\ blockSize' = current.size
  /\ prepareStep' = "bypass"
  /\ UNCHANGED <<sampleRate, bypassEnabled, counters, callVars, guiVars, current>>

StoreBypass ==
  /\ prepareStep = "bypass"
  /\ bypassEnabled' = current.bypass
  /\ prepareStep' = "idle"
  /\ UNCHANGED <<sampleRate, blockSize, counters, callVars, guiVars, current>>

Next ==
  \/ \E a \in Arguments : Call(a)
  \/ LoadBypass \/ CopyChannel \/ CountBlock
  \/ ClickBypass \/ ClickReset \/ ResetXruns
  \/ \E d \in Devices : ReadSettings(d)
  \/ StoreRate \/ StoreBlockSize \/ StoreBypass

Spec == Init /\ [][Next]_vars

-----------------------------------------------------------------------------
\* Properties.

\* Every variable has its type.
TypeOK ==
  /\ sampleRate \in {48000} \cup {d.rate : d \in Devices}
  /\ blockSize \in {128} \cup {d.size : d \in Devices}
  /\ bypassEnabled \in BOOLEAN /\ toggled \in BOOLEAN /\ shouldBypass \in BOOLEAN
  /\ processedBlocks \in 0 .. calls /\ xrunCount \in Nat /\ xrunsBefore \in Nat \cup {-1}
  /\ audioStep \in {"idle", "flag", "copy"} /\ args \in Arguments
  /\ DOMAIN inRows \subseteq args.in.present /\ DOMAIN outRows \subseteq args.out.present
  /\ channel \in 0 .. args.out.channels \/ audioStep # "copy"
  /\ resetStep \in {"idle", "xruns"}
  /\ prepareStep \in {"idle", "rate", "size", "bypass"}
  /\ calls \in 0 .. MaxCalls /\ clicks \in 0 .. MaxClicks

\* The button shows what the callback does: a device that is prepared writes the
\* bypass flag back as it found it.  It holds because buttons and preparation share
\* the GUI thread; on a thread of its own prepareToPlay would undo a click.
BypassIsKept == prepareStep = "idle" => bypassEnabled = toggled

\* The rows a callback returns are all input or all silence, as the flag was when it
\* began: a click in the middle does not split a block, no row of the device is left
\* over, and with buffers used in place no row is read after it was overwritten.
BlockIsWhole ==
  audioStep = "idle" /\ calls > 0 /\ args.out.given =>
    \A c \in args.out.present :
      LET source == SourceChannel(c, args.in.channels)
      IN outRows[c] = IF shouldBypass /\ HasInput /\ source \in args.in.present
                      THEN Input(source) ELSE Silent

\* docs/audio_callback_flow.md: xrunCount increments when the callback receives
\* missing output buffers or missing channel pointers; of the input pointers only those
\* are meant here that an output channel is copied from.
Missing(a) ==
  \/ ~a.out.given
  \/ a.out.present # 0 .. a.out.channels - 1
  \/ /\ a.in.given /\ a.in.channels > 0
     /\ \E c \in a.out.present : SourceChannel(c, a.in.channels) \notin a.in.present
MissingIsCounted ==
  audioStep = "idle" /\ calls > 0 /\ xrunsBefore >= 0 /\ Missing(args) => xrunCount > xrunsBefore
=============================================================================
