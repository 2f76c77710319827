\* Three PIDs so that one child may be forked while another ends and a third is a
\* stranger's; two signals and one level of nesting inside a section.
SPECIFICATION LiveSpec
CONSTANTS
  p1 = p1
  p2 = p2
  p3 = p3
  NoPid = NoPid
  Pid <- MCPid
  MaxSignals = 2
  MaxForeign = 2
  MaxNesting = 2
INVARIANTS AtomicRegistration InterruptUnblocksWait
PROPERTIES ImplementsProcessTable SignalHandled
