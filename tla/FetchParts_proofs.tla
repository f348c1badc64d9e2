------------------------- MODULE FetchParts_proofs -------------------------
(***************************************************************************)
(* What one clock edge does to the FIFO and to the memory, whoever drives  *)
(* them: the lemmas that the proofs of FetchPath and of Top share.         *)
(***************************************************************************)
EXTENDS Fifo, AvalonMemory, TLAPS

\* The 32-bit increments stay 32 bits wide.
LEMMA WordSteps == \A w \in Word : Plus2(w) \in Word /\ Minus2(w) \in Word
BY WordAssumption DEF Word, Plus2, Minus2

\* A FIFO clocked with data of a type holds that type, and grows by at most
\* the word that was pushed.
LEMMA FifoSteps ==
  ASSUME NEW data \in Word, NEW wrreq \in BOOLEAN, NEW rdreq \in BOOLEAN,
         words \in Seq(Word), q \in Word, FifoClock(wrreq, data, rdreq)
  PROVE  /\ words' \in Seq(Word) /\ q' \in Word
         /\ Len(words') <= Len(words) + 1
         /\ ~wrreq => Len(words') <= Len(words)
<1> DEFINE rest == Remaining(rdreq)
<1>1. rest \in Seq(Word) /\ Len(rest) <= Len(words)
  BY DEF Remaining, Empty
<1>2. words' = rest \/ (wrreq /\ words' = Append(rest, data))
  BY DEF FifoClock
<1>3. words' \in Seq(Word)
  BY <1>1, <1>2
<1>4. q' \in Word
  BY DEF FifoClock, Empty
<1>5. Len(words') <= Len(words) + 1 /\ (~wrreq => Len(words') <= Len(words))
  <2>1. CASE words' = rest
    BY <2>1, <1>1
  <2>2. CASE wrreq /\ words' = Append(rest, data)
    BY <2>2, <1>1
  <2> QED BY <1>2, <2>1, <2>2
<1> QED BY <1>3, <1>4, <1>5

\* What one step of the memory does to the words it still owes.
LEMMA MemoryStep ==
  ASSUME NEW accept \in BOOLEAN, NEW deliver \in BOOLEAN, NEW rd \in BOOLEAN,
         NEW adr \in Word, NEW burst \in Nat, burst > 0,
         m_addr \in Word, m_left \in 0 .. burst,
         MemClock(rd, adr, burst, accept, deliver)
  PROVE  /\ m_addr' \in Word /\ m_left' \in 0 .. burst
         /\ accept => rd /\ m_left = 0 /\ m_left' = burst /\ m_addr' = adr
         /\ deliver => ~accept /\ m_left > 0 /\ m_left' = m_left - 1
                       /\ m_addr' = Plus2(m_addr)
         /\ ~accept /\ ~deliver => m_left' = m_left /\ m_addr' = m_addr
BY WordSteps DEF MemClock, mem_vars
=============================================================================
