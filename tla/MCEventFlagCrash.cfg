\* A notifier that may die, a waiter, and a notifier that goes on.
CONSTANTS
  Threads = {t1, t2, t3}
  Bits = {b1}
  Notifiers = {t1, t3}
  Mortal = {t1}
SPECIFICATION CrashSpec
PROPERTY WaiterIsServed
