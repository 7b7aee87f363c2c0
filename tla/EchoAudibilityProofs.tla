------------------------ MODULE EchoAudibilityProofs ------------------------
(***************************************************************************)
(* The theorem about EchoAudibility, for rings of every size: positions    *)
(* kept outside of the rings stay right through everything that happens to *)
(* them.  Contents are those HistoryInOrder describes, the distance between*)
(* the two write positions is what the invariant is about.                 *)
(***************************************************************************)
EXTENDS EchoAudibility, BlockProcessorProofs

\* A call with the update of the estimators is one of the processor's.
THEOREM DrivesTheProcessor == AudibilitySpec => BlockSpec
<1>1. AudibilityInit => BlockInit  BY DEF AudibilityInit
<1>2. [AudibilityNext]_systemVars => [BlockNext]_allVars
  <2> SUFFICES ASSUME [AudibilityNext]_systemVars PROVE [BlockNext]_allVars
    OBVIOUS
  <2>1. CASE RemoveEchoAndUpdate
    <3>1. RemoveEcho  BY <2>1, Zenon DEF RemoveEchoAndUpdate
    <3> QED  BY <3>1 DEF BlockNext
  <2>2. CASE \/ \E active \in BOOLEAN : BufferRender(active)
             \/ ProcessCapture \/ PrepareBuffers \/ Align \/ AlignExternally
             \/ \E ms \in AudioDelaysMs : ReportAudioBufferDelay(ms)
    BY <2>2, Zenon DEF BlockNext
  <2>3. CASE UNCHANGED systemVars
    BY <2>3 DEF systemVars
  <2> QED  BY <2>1, <2>2, <2>3, Zenon DEF AudibilityNext
<1> QED  BY <1>1, <1>2, PTL DEF AudibilitySpec, BlockSpec

-----------------------------------------------------------------------------
(* The distance from the position before.                                  *)

\* Age zero is the write position.
LEMMA AgeZero ==
  ASSUME NEW w \in Slot
  PROVE  Downwards(BufferSize, w, 0) = w
<1>1. BufferSize \in Nat \ {0} /\ w \in 0 .. BufferSize - 1 /\ 0 \in -BufferSize .. BufferSize
  BY Sizes DEF Slot
<1>2. w + 0 \in 0 .. BufferSize - 1 => OffsetIndex(BufferSize, w, 0) = w + 0
  BY <1>1, OffsetWraps
<1> QED  BY <1>1, <1>2 DEF Downwards

\* A block further on, the same slot is a block older.
LEMMA SlotsAge ==
  ASSUME NEW w \in Slot, NEW n \in Nat, n + 1 < BufferSize
  PROVE  Downwards(BufferSize, DecIndex(w), n + 1) = Downwards(BufferSize, w, n)
<1>1. PICK size \in Nat \ {0, 1} : size = BufferSize  BY Sizes
<1>2. PICK age \in 0 .. size - 1 : age = n + 1  BY <1>1
<1>3. PICK v \in 0 .. size - 1 : v = w  BY <1>1 DEF Slot
<1>4. DecIndex(w) = IF v > 0 THEN v - 1 ELSE size - 1  BY <1>1, <1>3 DEF DecIndex
<1>5. LET moved == IF v > 0 THEN v - 1 ELSE size - 1 IN
      /\ Downwards(size, moved, age) \in 0 .. size - 1
      /\ age = 0 => Downwards(size, moved, age) = moved
      /\ age > 0 => /\ Downwards(size, moved, age) = Downwards(size, v, age - 1)
                    /\ Downwards(size, moved, age) # moved
  BY AgesDownwards
<1>6. age > 0 /\ age - 1 = n  BY <1>2
<1> QED  BY <1>1, <1>2, <1>3, <1>4, <1>5, <1>6

\* As long as the ring has not gone round, the position noted at the last update lies
\* as many slots behind the write position as blocks were rendered since.
Since == render_call_counter_ - seenRender
NotedInv ==
  /\ seenRender \in Nat /\ Since \in Nat
  /\ non_zero_render_seen_ => render_spectrum_write_prev_ # None
  /\ render_spectrum_write_prev_ # None /\ Since < BufferSize
       => render_spectrum_write_prev_ = Downwards(BufferSize, spectra.write, Since)

\* What an update leaves.
LEMMA UpdateNotes ==
  ASSUME RingInv, RemoveEchoAndUpdate
  PROVE  /\ UNCHANGED vars
         /\ render_spectrum_write_prev_' = spectra.write /\ seenRender' = render_call_counter_
         /\ non_zero_render_seen_' =>
              non_zero_render_seen_ \/ render_spectrum_write_prev_ # None
<1>1. PICK seen : Update(seen)  BY Zenon DEF RemoveEchoAndUpdate
<1>2. UNCHANGED vars
  <2>1. RemoveEcho  BY Zenon DEF RemoveEchoAndUpdate
  <2> QED  BY <2>1 DEF RemoveEcho
<1>3. render_spectrum_write_prev_' = spectra.write /\ seenRender' = render_call_counter_
  BY <1>1, Zenon DEF Update
<1>4. \/ non_zero_render_seen_' = non_zero_render_seen_
      \/ render_spectrum_write_prev_ # None
  BY <1>1, Zenon DEF Update
<1> QED  BY <1>2, <1>3, <1>4

\* Every step keeps it.
LEMMA NotedNext ==
  RingInv /\ CallsOK /\ NotedInv /\ [AudibilityNext]_systemVars => NotedInv'
<1> SUFFICES ASSUME RingInv, CallsOK, NotedInv, [AudibilityNext]_systemVars PROVE NotedInv'
  OBVIOUS
<1>0. spectra.write \in Slot /\ render_call_counter_ \in Nat
  BY DEF RingInv, PositionsOK, CountersOK, Count, Ring
<1>1. CASE RemoveEchoAndUpdate
  <2>1. /\ UNCHANGED vars /\ render_spectrum_write_prev_' = spectra.write
        /\ seenRender' = render_call_counter_
    BY <1>1, UpdateNotes
  <2>2. spectra' = spectra /\ render_call_counter_' = render_call_counter_
    BY <2>1 DEF vars, positionVars
  <2>3. Since' = 0  BY <1>0, <2>1, <2>2 DEF Since
  <2>4. Downwards(BufferSize, spectra.write, 0) = spectra.write  BY <1>0, AgeZero
  <2>5. spectra.write # None  BY <1>0, InputAssumption, Sizes DEF Slot
  <2> QED  BY <1>0, <2>1, <2>2, <2>3, <2>4, <2>5 DEF NotedInv
<1>2. CASE /\ [BlockNext]_allVars
           /\ UNCHANGED audibilityVars
  <2>1. /\ UNCHANGED <<render_spectrum_write_prev_, non_zero_render_seen_, seenRender>>
    BY <1>2 DEF audibilityVars
  <2>2. [Next]_vars  BY <1>2, StepsOfTheBuffer
  <2>3. CASE NothingWritten
    BY <2>1, <2>3 DEF NothingWritten, NotedInv, Since
  <2>4. CASE OneBlockWritten
    <3>1. /\ render_call_counter_' = render_call_counter_ + 1
          /\ spectra'.write = DecIndex(spectra.write)
      BY <2>4 DEF OneBlockWritten
    <3>2. Since \in Nat /\ seenRender \in Nat  BY DEF NotedInv
    <3>3. Since' = Since + 1  BY <1>0, <2>1, <3>1, <3>2 DEF Since
    <3> HIDE DEF Since
    <3>4. ASSUME render_spectrum_write_prev_ # None, Since + 1 < BufferSize
          PROVE  render_spectrum_write_prev_
                   = Downwards(BufferSize, DecIndex(spectra.write), Since + 1)
      <4>1. Since < BufferSize  BY <3>2, <3>4, Sizes
      <4>2. render_spectrum_write_prev_ = Downwards(BufferSize, spectra.write, Since)
        BY <3>4, <4>1 DEF NotedInv
      <4> QED  BY <1>0, <3>2, <3>4, <4>2, SlotsAge
    <3> QED  BY <2>1, <3>1, <3>2, <3>3, <3>4 DEF NotedInv
  <2> QED  BY <2>2, <2>3, <2>4, HistorySteps
<1>3. CASE /\ \/ \E active \in BOOLEAN : BufferRender(active)
              \/ ProcessCapture \/ PrepareBuffers \/ Align \/ AlignExternally
              \/ \E ms \in AudioDelaysMs : ReportAudioBufferDelay(ms)
           /\ UNCHANGED audibilityVars
  BY <1>2, <1>3, Zenon DEF BlockNext
<1>4. CASE UNCHANGED systemVars
  <2>1. UNCHANGED allVars /\ UNCHANGED audibilityVars  BY <1>4, Zenon DEF systemVars
  <2> QED  BY <1>2, <2>1, Zenon
<1> QED  BY <1>1, <1>3, <1>4, Zenon DEF AudibilityNext

\* It holds of every reachable state.
LEMMA NotedAlways == AudibilitySpec => [](NotedInv /\ RingInv /\ HistoryInOrder)
<1>1. AudibilityInit => NotedInv
  BY DEF AudibilityInit, BlockInit, Init, NotedInv, Since
<1>2. RingInv /\ CallsOK /\ NotedInv /\ [AudibilityNext]_systemVars => NotedInv'
  BY NotedNext
<1> QED  BY <1>1, <1>2, DrivesTheProcessor, DrivesTheBuffer, CallsAlways, RingInvAlways,
            HistoryAlwaysInOrder, PTL DEF AudibilitySpec

-----------------------------------------------------------------------------
(* The spectra on the way.                                                 *)

\* From a slot n blocks old towards the write position, there are n slots before it,
\* each a block younger than the one before.
LEMMA SlotsBetween ==
  ASSUME NEW w \in Slot, NEW n \in Nat, n < BufferSize
  PROVE  LET p == Downwards(BufferSize, w, n) IN
         /\ OffsetIndex(BufferSize, p, -w) = n
         /\ \A k \in 1 .. n :
              OffsetIndex(BufferSize, p, 1 - k) = OffsetIndex(BufferSize, w, n - k + 1)
<1>1. PICK size \in Nat \ {0} : size = BufferSize  BY Sizes
<1>2. w \in 0 .. size - 1 /\ n \in 0 .. size - 1 /\ n \in -size .. size /\ -w \in -size .. size
  BY <1>1 DEF Slot
<1>3. PICK p : p = OffsetIndex(size, w, n)  OBVIOUS
<1>4. /\ p \in 0 .. size - 1
      /\ w + n < size => p = w + n
      /\ w + n >= size => p = w + n - size
  <2>1. /\ OffsetIndex(size, w, n) \in 0 .. size - 1
        /\ w + n \in 0 .. size - 1 => OffsetIndex(size, w, n) = w + n
        /\ w + n >= size => OffsetIndex(size, w, n) = w + n - size
    BY <1>2, OffsetWraps
  <2> QED  BY <1>2, <1>3, <2>1
<1>5. OffsetIndex(size, p, -w) = n
  <2>1. /\ p + (-w) < 0 => OffsetIndex(size, p, -w) = p + (-w) + size
        /\ p + (-w) \in 0 .. size - 1 => OffsetIndex(size, p, -w) = p + (-w)
    BY <1>2, <1>4, OffsetWraps
  <2> QED  BY <1>2, <1>4, <2>1
<1>6. ASSUME NEW k \in 1 .. n
      PROVE  OffsetIndex(size, p, 1 - k) = OffsetIndex(size, w, n - k + 1)
  <2>1. PICK a \in Int, b \in Int : a = 1 - k /\ b = n - k + 1
    BY <1>2
  <2>2. a \in -size .. size /\ b \in -size .. size /\ b = n + a /\ a <= 0 /\ b >= 1
    BY <1>2, <2>1
  <2>3. /\ p + a < 0 => OffsetIndex(size, p, a) = p + a + size
        /\ p + a \in 0 .. size - 1 => OffsetIndex(size, p, a) = p + a
    BY <1>4, <2>2, OffsetWraps
  <2>4. /\ w + b \in 0 .. size - 1 => OffsetIndex(size, w, b) = w + b
        /\ w + b >= size => OffsetIndex(size, w, b) = w + b - size
    BY <1>2, <2>2, OffsetWraps
  <2>5. OffsetIndex(size, p, a) = OffsetIndex(size, w, b)
    BY <1>2, <1>4, <2>2, <2>3, <2>4
  <2> QED  BY <2>1, <2>5
<1> QED  BY <1>1, <1>3, <1>5, <1>6 DEF Downwards

\* The noise estimate is fed every render spectrum once and in order.
THEOREM NoiseAlwaysSeesAll == AudibilitySpec => NoiseSeesEverySpectrum
<1> DEFINE Blocks == [k \in 1 .. Since |-> <<BlockNumber(seenRender + k - 1),
                                             BlockNumber(seenRender + k - 2)>>]
           Step == Updated /\ non_zero_render_seen_' /\ Since < BufferSize => Fed = Blocks
<1>1. NotedInv /\ RingInv /\ HistoryInOrder /\ [AudibilityNext]_systemVars => [Step]_systemVars
  <2> SUFFICES ASSUME NotedInv, RingInv, HistoryInOrder, AudibilityNext, Updated,
                      non_zero_render_seen_', Since < BufferSize
               PROVE  Fed = Blocks
    BY Zenon
  <2>1. RemoveEchoAndUpdate
    <3>1. pc = "remove" /\ pc' = "idle"  BY DEF Updated
    <3>2. ASSUME NEW active \in BOOLEAN, BufferRender(active) PROVE FALSE
      BY <3>1, <3>2 DEF BufferRender
    <3>3. ASSUME NEW ms \in AudioDelaysMs, ReportAudioBufferDelay(ms) PROVE FALSE
      BY <3>1, <3>3 DEF ReportAudioBufferDelay
    <3>4. ~ProcessCapture /\ ~PrepareBuffers /\ ~Align /\ ~AlignExternally
      BY <3>1 DEF ProcessCapture, PrepareBuffers, Align, AlignExternally
    <3> QED  BY <3>2, <3>3, <3>4, Zenon DEF AudibilityNext
  <2>2. render_spectrum_write_prev_ # None
    BY <2>1, UpdateNotes DEF NotedInv
  <2>3. spectra.write \in Slot /\ render_call_counter_ \in Nat /\ seenRender \in Nat /\ Since \in Nat
    BY DEF RingInv, PositionsOK, CountersOK, Count, Ring, NotedInv
  <2>0. /\ Since < BufferSize => render_spectrum_write_prev_
                                    = Downwards(BufferSize, spectra.write, Since)
        /\ render_call_counter_ = seenRender + Since
    <3>1. render_call_counter_ = seenRender + Since  BY <2>3 DEF Since
    <3> QED  BY <2>2, <3>1, Zenon DEF NotedInv
  <2>4. PICK w, n, p :
          /\ w \in Slot /\ n \in Nat
          /\ p = render_spectrum_write_prev_ /\ w = spectra.write /\ n = Since
          /\ n < BufferSize /\ p = Downwards(BufferSize, w, n)
          /\ render_call_counter_ = seenRender + n
    <3> HIDE DEF Since
    <3> QED  BY <2>0, <2>3
  <2>5. /\ OffsetIndex(BufferSize, p, -w) = n
        /\ \A k \in 1 .. n :
             OffsetIndex(BufferSize, p, 1 - k) = OffsetIndex(BufferSize, w, n - k + 1)
    BY <2>4, SlotsBetween
  <2>6. Fed = [k \in 1 .. n |-> spectrumAt[OffsetIndex(BufferSize, p, 1 - k)]]
    BY <2>4, <2>5 DEF Fed, SpectraSince
  <2>7. ASSUME NEW k \in 1 .. n
        PROVE  spectrumAt[OffsetIndex(BufferSize, p, 1 - k)]
                 = <<BlockNumber(seenRender + k - 1), BlockNumber(seenRender + k - 2)>>
    <3>1. PICK age \in Slot : age = n - k + 1
      BY <2>4, Sizes DEF Slot
    <3>2. /\ render_call_counter_ - age = seenRender + k - 1
          /\ (render_call_counter_ - age) - 1 = seenRender + k - 2
      BY <2>3, <2>4, <3>1
    <3>3. spectrumAt[OffsetIndex(BufferSize, spectra.write, age)]
            = <<BlockNumber(render_call_counter_ - age),
                BlockNumber((render_call_counter_ - age) - 1)>>
      BY DEF HistoryInOrder
    <3>4. OffsetIndex(BufferSize, p, 1 - k) = OffsetIndex(BufferSize, w, age)
      BY <2>5, <3>1
    <3> QED  BY <2>4, <3>2, <3>3, <3>4
  <2> QED  BY <2>4, <2>6, <2>7
<1> QED  BY <1>1, NotedAlways, PTL DEF AudibilitySpec, NoiseSeesEverySpectrum, Since
=============================================================================
