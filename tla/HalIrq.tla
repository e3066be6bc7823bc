------------------------------- MODULE HalIrq -------------------------------
(***************************************************************************)
(* Interrupts of the Nios board support package (alt_irq.h,                *)
(* alt_legacy_irq.h, alt_irq_register.c, alt_irq_handler.c, and the entry  *)
(* and exit of an exception): which service routine runs, and inside       *)
(* which.  The interrupt with the lowest number has the highest priority.  *)
(*                                                                         *)
(* An interrupt line stays up until the service routine of its device      *)
(* clears the condition.  A routine may let itself be interrupted with     *)
(* alt_irq_interruptible, and ends that before it returns.                 *)
(***************************************************************************)
EXTENDS Integers, Sequences

CONSTANTS
  ALT_NIRQ,      \* number of interrupts
  CallsMasked    \* whether routines enable and disable interrupts although
                 \* one of them, or one they interrupt, is interruptible

ASSUME IrqAssumption == ALT_NIRQ \in Nat /\ CallsMasked \in BOOLEAN

Irq == 0 .. ALT_NIRQ - 1

VARIABLES
  lines,               \* the devices that ask for service
  pie,                 \* status.PIE
  ienable,             \* the IENABLE register
  alt_irq_active,      \* the interrupts that are enabled
  alt_priority_mask,   \* the interrupts an interruptible routine lets in
  handler,             \* the interrupts with a routine in alt_irq
  running              \* the routines that are running, the last one inmost

irqVars == <<lines, pie, ienable, alt_irq_active, alt_priority_mask, handler, running>>

\* alt_irq_init: no interrupt is enabled, and the processor takes any.
IrqInit ==
  /\ lines = {} /\ handler = {}
  /\ pie = TRUE
  /\ ienable = {} /\ alt_irq_active = {}
  /\ alt_priority_mask = Irq
  /\ running = <<>>

Inmost     == running[Len(running)]
Outer      == SubSeq(running, 1, Len(running) - 1)
InHandler  == running # <<>>

-----------------------------------------------------------------------------
(* Enabling and disabling.                                                 *)

\* Whether the program calls the functions below: in a routine it has the
\* processor only while interrupts are off or none has come.
Calls == CallsMasked \/ alt_priority_mask = Irq

\* alt_irq_enable and alt_irq_disable write the enabled interrupts to
\* IENABLE, whatever the priority mask says.
WriteEnable(active) ==
  /\ alt_irq_active' = active
  /\ ienable' = active

\* alt_irq_register: the table is written with interrupts off; a routine
\* enables its interrupt, NULL disables it.
Register(i) ==
  /\ Calls
  /\ handler' = handler \cup {i}
  /\ WriteEnable(alt_irq_active \cup {i})
  /\ UNCHANGED <<lines, pie, alt_priority_mask, running>>

\* Mutant: the interrupt stays enabled.
DeregisterKeeps(i) ==
  /\ Calls
  /\ handler' = handler \ {i}
  /\ UNCHANGED <<lines, pie, ienable, alt_irq_active, alt_priority_mask, running>>

Deregister(i) ==
  /\ Calls
  /\ handler' = handler \ {i}
  /\ WriteEnable(alt_irq_active \ {i})
  /\ UNCHANGED <<lines, pie, alt_priority_mask, running>>

\* What the application calls alt_irq_enable with: an interrupt that has a
\* routine.  alt_irq_enable does not look, and alt_irq_handler would call an
\* empty place of the table.
Registered(i) == i \in handler

\* alt_irq_enable.
Enable(i) ==
  /\ Calls
  /\ WriteEnable(alt_irq_active \cup {i})
  /\ UNCHANGED <<lines, pie, alt_priority_mask, handler, running>>

\* alt_irq_disable.
Disable(i) ==
  /\ Calls
  /\ WriteEnable(alt_irq_active \ {i})
  /\ UNCHANGED <<lines, pie, alt_priority_mask, handler, running>>

-----------------------------------------------------------------------------
(* Taking an interrupt.                                                    *)

Pending == lines \cap ienable

\* A device asks for service.
Raise(i) ==
  /\ lines' = lines \cup {i}
  /\ UNCHANGED <<pie, ienable, alt_irq_active, alt_priority_mask, handler, running>>

\* The routine alt_irq_handler calls: that of the first pending interrupt.
First == CHOOSE i \in Pending : \A j \in Pending : i <= j

\* Its frame; mask is what its alt_irq_interruptible finds.
Call == [irq |-> First, open |-> FALSE, mask |-> alt_priority_mask]

\* The exception entry clears PIE and calls alt_irq_handler.
Take ==
  /\ pie /\ Pending # {}
  /\ pie' = FALSE
  /\ running' = Append(running, Call)
  /\ UNCHANGED <<lines, ienable, alt_irq_active, alt_priority_mask, handler>>

\* The routine clears the condition of its device.
Clear ==
  /\ InHandler
  /\ lines' = lines \ {Inmost.irq}
  /\ UNCHANGED <<pie, ienable, alt_irq_active, alt_priority_mask, handler, running>>

\* The routine returns: alt_irq_handler calls the next pending one, the same
\* again if its condition holds, or the exception ends and PIE is as it was.
Return ==
  /\ InHandler /\ ~ Inmost.open
  /\ pie' = (Pending = {})
  /\ running' = IF Pending = {} THEN Outer ELSE Append(Outer, Call)
  /\ UNCHANGED <<lines, ienable, alt_irq_active, alt_priority_mask, handler>>

-----------------------------------------------------------------------------
(* Interruptible routines.                                                 *)

\* Mutant: the routine's own interrupt is let in as well.
AboveOrEqual(i) == {j \in Irq : j <= i}

Above(i) == {j \in Irq : j < i}

\* alt_irq_interruptible(priority), called with the routine's own number.
Interruptible ==
  /\ InHandler /\ ~ Inmost.open
  /\ alt_priority_mask' = Above(Inmost.irq)
  /\ ienable' = alt_irq_active \cap alt_priority_mask'
  /\ pie' = TRUE
  /\ running' = Append(Outer, [Inmost EXCEPT !.open = TRUE])
  /\ UNCHANGED <<lines, alt_irq_active, handler>>

\* Mutant: IENABLE is left as it is.
NonInterruptibleKeeps ==
  /\ InHandler /\ Inmost.open
  /\ alt_priority_mask' = Inmost.mask
  /\ pie' = FALSE
  /\ running' = Append(Outer, [Inmost EXCEPT !.open = FALSE])
  /\ UNCHANGED <<lines, ienable, alt_irq_active, handler>>

\* alt_irq_non_interruptible(mask), with the mask from before.
NonInterruptible ==
  /\ InHandler /\ Inmost.open
  /\ alt_priority_mask' = Inmost.mask
  /\ ienable' = alt_irq_active \cap alt_priority_mask'
  /\ pie' = FALSE
  /\ running' = Append(Outer, [Inmost EXCEPT !.open = FALSE])
  /\ UNCHANGED <<lines, alt_irq_active, handler>>

IrqNext ==
  \/ Take \/ Clear \/ Return \/ Interruptible \/ NonInterruptible
  \/ \E i \in Irq : Raise(i) \/ Register(i) \/ Deregister(i) \/ Disable(i)
  \/ \E i \in Irq : Registered(i) /\ Enable(i)

IrqSpec == IrqInit /\ [][IrqNext]_irqVars

-----------------------------------------------------------------------------
\* Only interrupts with a routine are enabled: alt_irq_handler calls what it
\* finds in the table without a test.
IrqTypeOK ==
  /\ lines \in SUBSET Irq /\ handler \in SUBSET Irq
  /\ pie \in BOOLEAN
  /\ ienable \in SUBSET Irq /\ alt_irq_active \in SUBSET handler
  /\ alt_priority_mask \in SUBSET Irq
  /\ running \in Seq([irq : Irq, open : BOOLEAN, mask : SUBSET Irq])

\* A routine is only ever interrupted by one of a higher priority, through
\* any depth of interruptible routines, and by the further routines
\* alt_irq_handler calls inside it.
NestsUpward ==
  \A m, n \in DOMAIN running : m < n => running[n].irq < running[m].irq

\* IENABLE holds the enabled interrupts the mask lets in, and when no routine
\* is interruptible the mask lets all in: none stays blocked.
NoneStaysBlocked ==
  /\ ienable = alt_irq_active \cap alt_priority_mask
  /\ (\A n \in DOMAIN running : ~ running[n].open) => alt_priority_mask = Irq
=============================================================================
