---------------------------- MODULE DeviceModule ----------------------------
(***************************************************************************)
(* Loading and unloading of the character device module                    *)
(* (11-kernel-module-basic/05-fops-ioctl/hello.c): hello_world_init takes  *)
(* five resources one after the other and, when a step fails, gives back   *)
(* through its labels what it took; hello_world_exit gives all back.  A    *)
(* resource belongs to the load that took it.                              *)
(***************************************************************************)
EXTENDS Integers

CONSTANT MaxLoads

VARIABLES
  step,    \* what init or exit does next
  load,    \* the number of this load
  taken    \* the resources that are taken: name and load

deviceModuleVars == <<step, load, taken>>

Init ==
  /\ step = "unloaded"
  /\ load = 0
  /\ taken = {}

Insmod ==
  /\ step = "unloaded"
  /\ load < MaxLoads
  /\ load' = load + 1
  /\ step' = "region"
  /\ UNCHANGED taken

Take(resource, next) ==
  /\ step = resource
  /\ taken' = taken \cup {<<resource, load>>}
  /\ step' = next
  /\ UNCHANGED load

Fail(resource, label) ==
  /\ step = resource
  /\ step' = label
  /\ UNCHANGED <<load, taken>>

Free(label, resource, next) ==
  /\ step = label
  /\ taken' = taken \ {<<resource, load>>}
  /\ step' = next
  /\ UNCHANGED load

(* class_create and device_create report a failure by an error pointer,    *)
(* which the tests for NULL let pass: device_create with such a class      *)
(* crashes the kernel; without the device the load goes on.                *)
hello_world_init ==
  \/ Take("region", "cdev") \/ Fail("region", "unloaded")
  \/ Take("cdev", "class") \/ Fail("cdev", "rm_device_numb")
  \/ Take("class", "device") \/ Fail("class", "crashed")
  \/ Take("device", "memory") \/ Fail("device", "memory")
  \/ Take("memory", "loaded") \/ Fail("memory", "rm_device")

(* Mutant of Unwind: the class is not destroyed. *)
Unwind_no_class ==
  \/ Free("rm_device", "device", "rm_device_numb")
  \/ Free("rm_device_numb", "region", "unloaded")

(* The labels of init; none deletes the cdev. *)
Unwind ==
  \/ Free("rm_device", "device", "rm_class")
  \/ Free("rm_class", "class", "rm_device_numb")
  \/ Free("rm_device_numb", "region", "unloaded")

Rmmod ==
  /\ step = "loaded"
  /\ step' = "kfree"
  /\ UNCHANGED <<load, taken>>

(* unregister_chrdev_region for three numbers does not find the region of  *)
(* one, and leaves it.                                                     *)
hello_world_exit ==
  \/ Free("kfree", "memory", "device_destroy")
  \/ Free("device_destroy", "device", "class_destroy")
  \/ Free("class_destroy", "class", "cdev_del")
  \/ Free("cdev_del", "cdev", "unloaded")

Next == Insmod \/ hello_world_init \/ Unwind \/ Rmmod \/ hello_world_exit

-----------------------------------------------------------------------------
(* The module can be loaded again, after exit and after a failed init: no   *)
(* m_class, m_device or memory of an earlier load is left.  (A region may   *)
(* be, after exit, and a cdev, after an init that failed.)                  *)
CanBeLoadedAgain ==
  step = "region" => \A r \in taken : r[1] \in {"region", "cdev"}
=============================================================================
