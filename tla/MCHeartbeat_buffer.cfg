\* asio's rule for the buffers of a write.
CONSTANT Capacity = 1
SPECIFICATION Spec
CHECK_DEADLOCK FALSE
INVARIANTS
    BufferOutlivesWrite
